---- MODULE Spec2Model ----
(***************************************************************************)
(* A model of kpmcore's ResizeOperation (src/ops/resizeoperation.cpp): the *)
(* composition of its job list at construction, preview()/undo() on the    *)
(* shared partition object, and execute() with its shrink/move/grow phases *)
(* and their rollback jobs, one job run per step; and the OperationStack   *)
(* that previews, undoes, merges and executes operations on a device with  *)
(* several partitions.                                                     *)
(***************************************************************************)
EXTENDS Integers, Sequences, FiniteSets, TLC

\* Sectors are drawn from 0..MaxSector.
MaxSector == 3

Sectors == 0..MaxSector

VARIABLES
    pFirst,             \* partition().firstSector() of the shared partition object
    pLast,              \* partition().lastSector()
    extended,           \* partition().roles().has(PartitionRole::Extended)
    canCheck,           \* CheckOperation::canCheck(&partition())
    diskFirst,          \* first sector of the partition in the on-disk table
    diskLength,         \* length of the partition in the on-disk table
    fsFirst,            \* sector where the file system's content starts on disk
    fsLength,           \* length the file system claims on disk
    startFsLength,      \* fsLength before any job ran (history)
    m_OrigFirstSector,
    m_OrigLastSector,
    m_NewFirstSector,
    m_NewLastSector,
    m_Job,              \* the job members of the operation, nullptr when not created
    jobs,               \* Operation::jobs(), in addJob() order
    status,             \* Operation::status()
    previewed,          \* whether preview() has been applied and not undone (history)
    pc,                 \* position of the operation: new, idle, the steps of execute(), done
    rval,               \* local rval of execute()
    oldStart,           \* local oldStart of move()
    oldLength,          \* local oldLength of grow()
    report,             \* the lines the operation appended to its report
    ran,                \* the jobs run by execute(), in order, with their outcome (history)
    devParts,           \* the partitions of the preview device, in the order of its table
    sect,               \* first and last sector of each partition object of the preview
    real,               \* geometry and file system of each partition on disk
    ops,                \* the operations of the OperationStack, oldest first
    fresh,              \* the operation constructed and not yet pushed, or NoOp
    initial,            \* devParts and sect before the first push (history)
    spc,                \* the stack: staging, executing, finished
    cur,                \* index of the operation the stack's execute is at
    popped,             \* status the last operation pop() removed had, "None" before
    candidate,          \* the Partition* handed to canGrow / canShrink / canMove
    asked,              \* the function called last on candidate, "none" before
    answer,             \* what that call returned
    helperStarted,      \* static ExternalCommand::helperStarted
    busConnected,       \* QDBusConnection::systemBus().isConnected()
    exited,             \* startHelper() called exit(0)
    launches,           \* how often startHelper() started the authorization job (history)
    logged,             \* the constructor logged that privileges could not be obtained
    auth,               \* how the event loop of the last startHelper() ended, "none" before
    m_ExitCode,         \* d->m_ExitCode of the command object
    lastCall,           \* the method called last on the command object
    dbus,               \* how the D-Bus call of that method ended
    returned,           \* what that method returned
    fstab,              \* content of the file under filename
    bak,                \* content of the file under filename.bak
    tmp,                \* content of the QTemporaryFile
    wpc,                \* position of writeMountpoints()
    wran,               \* the mv commands writeMountpoints() ran, with their outcome (history)
    wret                \* what writeMountpoints() returned

partVars == <<pFirst, pLast>>
attrVars == <<extended, canCheck>>
diskVars == <<diskFirst, diskLength, fsFirst, fsLength>>
opVars   == <<m_OrigFirstSector, m_OrigLastSector, m_NewFirstSector, m_NewLastSector, m_Job, jobs>>
execVars == <<rval, oldStart, oldLength, report, ran>>
stackVars == <<devParts, sect, real, ops, fresh, initial, spc, cur, popped>>
askVars == <<candidate, asked, answer>>
cmdVars == <<helperStarted, busConnected, exited, launches, logged, auth,
             m_ExitCode, lastCall, dbus, returned>>
fstabVars == <<fstab, bak, tmp, wpc, wran, wret>>
vars == <<pFirst, pLast, extended, canCheck, diskFirst, diskLength, fsFirst, fsLength,
          startFsLength, m_OrigFirstSector, m_OrigLastSector, m_NewFirstSector,
          m_NewLastSector, m_Job, jobs, status, previewed, pc, rval, oldStart,
          oldLength, report, ran, devParts, sect, real, ops, fresh, initial, spc, cur, popped,
          candidate, asked, answer, helperStarted, busConnected, exited, launches,
          logged, auth, m_ExitCode, lastCall, dbus, returned, fstab, bak, tmp, wpc, wran,
          wret>>

----------------------------------------------------------------------------
\* Jobs

nullptr == [name |-> "nullptr", kind |-> "nullptr"]

SetPartGeometryJob(n, first, len) ==
    [name |-> n, kind |-> "SetPartGeometryJob", first |-> first, length |-> len]

ResizeFileSystemJob(n, len) ==
    [name |-> n, kind |-> "ResizeFileSystemJob", length |-> len]

MoveFileSystemJob(n, first) ==
    [name |-> n, kind |-> "MoveFileSystemJob", first |-> first]

CheckFileSystemJob(n) ==
    [name |-> n, kind |-> "CheckFileSystemJob"]

Members == {"checkOriginalJob", "moveExtendedJob", "shrinkResizeJob", "shrinkSetGeomJob",
            "moveSetGeomJob", "moveFileSystemJob", "growResizeJob", "growSetGeomJob",
            "checkResizedJob"}

\* Job::run(): a job that succeeds applies its change to the disk, and a geometry
\* job also to the partition object; a job that fails changes nothing.
Run(j, ok) ==
    /\ ran' = Append(ran, [job |-> j, ok |-> ok])
    /\ IF ok /\ j.kind = "SetPartGeometryJob"
       THEN /\ diskFirst' = j.first
            /\ diskLength' = j.length
            /\ pFirst' = j.first
            /\ pLast' = j.first + j.length - 1
            /\ UNCHANGED <<fsFirst, fsLength>>
       ELSE IF ok /\ j.kind = "ResizeFileSystemJob"
       THEN /\ fsLength' = j.length
            /\ UNCHANGED <<diskFirst, diskLength, fsFirst, pFirst, pLast>>
       ELSE IF ok /\ j.kind = "MoveFileSystemJob"
       THEN /\ fsFirst' = j.first
            /\ UNCHANGED <<diskFirst, diskLength, fsLength, pFirst, pLast>>
       ELSE UNCHANGED <<diskVars, partVars>>

\* No job is run by this step.
NoRun == UNCHANGED <<ran, diskVars, partVars>>

----------------------------------------------------------------------------
\* Lengths

Length(first, last) == last - first + 1

origLength == Length(m_OrigFirstSector, m_OrigLastSector)
newLength == Length(m_NewFirstSector, m_NewLastSector)
pLength == Length(pFirst, pLast)

----------------------------------------------------------------------------
\* ResizeOperation::resizeAction(): a bit mask, here the set of its bits.

None == {}
MoveLeft == {"MoveLeft"}
MoveRight == {"MoveRight"}
Grow == {"Grow"}
Shrink == {"Shrink"}
MoveLeftGrow == {"MoveLeft", "Grow"}
MoveRightGrow == {"MoveRight", "Grow"}
MoveLeftShrink == {"MoveLeft", "Shrink"}
MoveRightShrink == {"MoveRight", "Shrink"}

ResizeActions == {None, MoveLeft, MoveRight, Grow, Shrink, MoveLeftGrow, MoveRightGrow,
                  MoveLeftShrink, MoveRightShrink}

\* a & b, as a condition
Has(a, b) == a \cap b # {}

\* resizeAction() with "grow" tested by >= instead of >.
resizeActionOfGrowOrEqual(origFirst, origLast, newFirst, newLast) ==
    LET a0 == None
        a1 == IF Length(newFirst, newLast) >= Length(origFirst, origLast) THEN Grow ELSE a0
        a2 == IF Length(newFirst, newLast) < Length(origFirst, origLast) THEN Shrink ELSE a1
        a3 == IF newFirst > origFirst THEN a2 \cup MoveRight ELSE a2
        a4 == IF newFirst < origFirst THEN a3 \cup MoveLeft ELSE a3
    IN  a4

\* resizeAction() with "move to the left" tested by <= instead of <.
resizeActionOfMoveLeftOrEqual(origFirst, origLast, newFirst, newLast) ==
    LET a0 == None
        a1 == IF Length(newFirst, newLast) > Length(origFirst, origLast) THEN Grow ELSE a0
        a2 == IF Length(newFirst, newLast) < Length(origFirst, origLast) THEN Shrink ELSE a1
        a3 == IF newFirst > origFirst THEN a2 \cup MoveRight ELSE a2
        a4 == IF newFirst <= origFirst THEN a3 \cup MoveLeft ELSE a3
    IN  a4

resizeActionOf(origFirst, origLast, newFirst, newLast) ==
    LET a0 == None
        a1 == IF Length(newFirst, newLast) > Length(origFirst, origLast) THEN Grow ELSE a0
        a2 == IF Length(newFirst, newLast) < Length(origFirst, origLast) THEN Shrink ELSE a1
        a3 == IF newFirst > origFirst THEN a2 \cup MoveRight ELSE a2
        a4 == IF newFirst < origFirst THEN a3 \cup MoveLeft ELSE a3
    IN  a4

resizeAction ==
    resizeActionOf(m_OrigFirstSector, m_OrigLastSector, m_NewFirstSector, m_NewLastSector)

----------------------------------------------------------------------------
\* ResizeOperation::ResizeOperation()

\* The shrink branch adding the geometry job before the file system job.
shrinkJobsGeomFirst(action, partFirst, newLen) ==
    IF Has(action, Shrink)
    THEN <<SetPartGeometryJob("shrinkSetGeomJob", partFirst, newLen),
           ResizeFileSystemJob("shrinkResizeJob", newLen)>>
    ELSE <<>>

\* The jobs of the shrink branch of the constructor, in addJob() order.
shrinkJobs(action, partFirst, newLen) ==
    IF Has(action, Shrink)
    THEN <<ResizeFileSystemJob("shrinkResizeJob", newLen),
           SetPartGeometryJob("shrinkSetGeomJob", partFirst, newLen)>>
    ELSE <<>>

\* The move branch with the two lengths of currentLength exchanged.
moveJobsLengthsExchanged(action, partLen, newFirst, newLen) ==
    IF Has(action, MoveLeft) \/ Has(action, MoveRight)
    THEN LET currentLength == IF Has(action, Shrink) THEN partLen ELSE newLen
         IN  <<SetPartGeometryJob("moveSetGeomJob", newFirst, currentLength),
               MoveFileSystemJob("moveFileSystemJob", newFirst)>>
    ELSE <<>>

\* The move branch taking the new length whether or not a shrink came before.
moveJobsNewLength(action, partLen, newFirst, newLen) ==
    IF Has(action, MoveLeft) \/ Has(action, MoveRight)
    THEN <<SetPartGeometryJob("moveSetGeomJob", newFirst, newLen),
           MoveFileSystemJob("moveFileSystemJob", newFirst)>>
    ELSE <<>>

\* The move branch taking the original length even after a shrink.
moveJobsKeepsLength(action, partLen, newFirst, newLen) ==
    IF Has(action, MoveLeft) \/ Has(action, MoveRight)
    THEN <<SetPartGeometryJob("moveSetGeomJob", newFirst, partLen),
           MoveFileSystemJob("moveFileSystemJob", newFirst)>>
    ELSE <<>>

\* The jobs of the move branch of the constructor, in addJob() order.
moveJobs(action, partLen, newFirst, newLen) ==
    IF Has(action, MoveLeft) \/ Has(action, MoveRight)
    THEN LET currentLength == IF Has(action, Shrink) THEN newLen ELSE partLen
         IN  <<SetPartGeometryJob("moveSetGeomJob", newFirst, currentLength),
               MoveFileSystemJob("moveFileSystemJob", newFirst)>>
    ELSE <<>>

\* The grow branch without the job that grows the file system.
growJobsGeometryOnly(action, newFirst, newLen) ==
    IF Has(action, Grow)
    THEN <<SetPartGeometryJob("growSetGeomJob", newFirst, newLen)>>
    ELSE <<>>

\* The jobs of the grow branch of the constructor, in addJob() order.
growJobs(action, newFirst, newLen) ==
    IF Has(action, Grow)
    THEN <<SetPartGeometryJob("growSetGeomJob", newFirst, newLen),
           ResizeFileSystemJob("growResizeJob", newLen)>>
    ELSE <<>>

\* The Extended branch composing a file system move with the geometry job.
extendedJobsWithFileSystem(newFirst, newLen) ==
    <<SetPartGeometryJob("moveExtendedJob", newFirst, newLen),
      MoveFileSystemJob("moveFileSystemJob", newFirst)>>

\* The job of the Extended branch of the constructor.
extendedJobs(newFirst, newLen) ==
    <<SetPartGeometryJob("moveExtendedJob", newFirst, newLen)>>

\* The job called n among those of list, nullptr when there is none.
Member(list, n) ==
    IF \E i \in 1..Len(list) : list[i].name = n
    THEN list[CHOOSE i \in 1..Len(list) : list[i].name = n]
    ELSE nullptr

\* The constructor on a partition at [partFirst, partLast] with the new range
\* [newFirst, newLast]: the jobs it creates and the job list it builds.
ctor(ext, chk, partFirst, partLast, newFirst, newLast) ==
    LET action == resizeActionOf(partFirst, partLast, newFirst, newLast)
        newLen == Length(newFirst, newLast)
        checkOriginal == <<CheckFileSystemJob("checkOriginalJob")>>
        checkResized == <<CheckFileSystemJob("checkResizedJob")>>
        body == IF ext
                THEN extendedJobs(newFirst, newLen)
                ELSE shrinkJobs(action, partFirst, newLen)
                       \o moveJobs(action, Length(partFirst, partLast), newFirst, newLen)
                       \o growJobs(action, newFirst, newLen)
        created == checkOriginal \o body \o (IF ext THEN <<>> ELSE checkResized)
        added == (IF chk THEN checkOriginal ELSE <<>>)
                   \o body
                   \o (IF ~ext /\ chk THEN checkResized ELSE <<>>)
    IN  [members |-> [n \in Members |-> Member(created, n)], jobs |-> added]

Construct ==
    /\ pc = "new"
    /\ \E newfirst \in Sectors, newlast \in Sectors :
         /\ newfirst <= newlast
         /\ m_OrigFirstSector' = pFirst
         /\ m_OrigLastSector' = pLast
         /\ m_NewFirstSector' = newfirst
         /\ m_NewLastSector' = newlast
         /\ LET c == ctor(extended, canCheck, pFirst, pLast, newfirst, newlast)
            IN  /\ m_Job' = c.members
                /\ jobs' = c.jobs
    /\ pc' = "idle"
    /\ UNCHANGED <<partVars, attrVars, askVars, cmdVars, fstabVars, diskVars, startFsLength, status, previewed, execVars>>
    /\ UNCHANGED stackVars

----------------------------------------------------------------------------
\* ResizeOperation::preview() and undo(), on the sectors of the partition object

Preview ==
    /\ pc = "idle"
    /\ pFirst' = m_NewFirstSector
    /\ pLast' = m_NewLastSector
    /\ previewed' = TRUE
    /\ UNCHANGED <<attrVars, askVars, cmdVars, fstabVars, diskVars, startFsLength, opVars, status, pc, execVars>>
    /\ UNCHANGED stackVars

Undo ==
    /\ pc = "idle"
    /\ previewed
    /\ pFirst' = m_OrigFirstSector
    /\ pLast' = m_OrigLastSector
    /\ previewed' = FALSE
    /\ UNCHANGED <<attrVars, askVars, cmdVars, fstabVars, diskVars, startFsLength, opVars, status, pc, execVars>>
    /\ UNCHANGED stackVars

----------------------------------------------------------------------------
\* ResizeOperation::execute(), one job per step

\* What no step of execute() changes.
execFrame == UNCHANGED <<attrVars, askVars, cmdVars, fstabVars, startFsLength, opVars, previewed, stackVars>>

\* execute() is entered: rval = true, and the pre-check is next.
ExecuteBegin ==
    /\ pc = "idle"
    /\ rval' = TRUE
    /\ pc' = "checkOriginal"
    /\ NoRun
    /\ execFrame
    /\ UNCHANGED <<status, oldStart, oldLength, report>>

\* Where execute() goes after a pre-check that did not fail.
afterCheckOriginal == IF m_Job["moveExtendedJob"] # nullptr THEN "moveExtended" ELSE "shrinkResize"

\* The pre-check run because the job exists, whether or not the file system
\* can be checked.
CheckOriginalUnguarded ==
    /\ pc = "checkOriginal"
    /\ \E ok \in BOOLEAN :
         /\ Run(m_Job["checkOriginalJob"], ok)
         /\ rval' = ok
         /\ IF ok
            THEN pc' = afterCheckOriginal /\ UNCHANGED report
            ELSE pc' = "setStatus" /\ report' = Append(report, "check before failed")
    /\ execFrame
    /\ UNCHANGED <<status, oldStart, oldLength>>

\* The pre-check with its failure reported but execute() going on.
CheckOriginalGoesOn ==
    /\ pc = "checkOriginal"
    /\ IF canCheck
       THEN \E ok \in BOOLEAN :
              /\ Run(m_Job["checkOriginalJob"], ok)
              /\ rval' = ok
              /\ pc' = afterCheckOriginal
              /\ report' = IF ok THEN report ELSE Append(report, "check before failed")
       ELSE /\ NoRun
            /\ pc' = afterCheckOriginal
            /\ UNCHANGED <<rval, report>>
    /\ execFrame
    /\ UNCHANGED <<status, oldStart, oldLength>>

CheckOriginal ==
    /\ pc = "checkOriginal"
    /\ IF canCheck
       THEN \E ok \in BOOLEAN :
              /\ Run(m_Job["checkOriginalJob"], ok)
              /\ rval' = ok
              /\ IF ok
                 THEN pc' = afterCheckOriginal /\ UNCHANGED report
                 ELSE pc' = "setStatus" /\ report' = Append(report, "check before failed")
       ELSE /\ NoRun
            /\ pc' = afterCheckOriginal
            /\ UNCHANGED <<rval, report>>
    /\ execFrame
    /\ UNCHANGED <<status, oldStart, oldLength>>

\* The extended geometry job run without its result assigned to rval.
MoveExtendedResultDropped ==
    /\ pc = "moveExtended"
    /\ \E ok \in BOOLEAN :
         /\ Run(m_Job["moveExtendedJob"], ok)
         /\ report' = IF ok THEN report ELSE Append(report, "moving extended failed")
         /\ UNCHANGED rval
    /\ pc' = "setStatus"
    /\ execFrame
    /\ UNCHANGED <<status, oldStart, oldLength>>

MoveExtended ==
    /\ pc = "moveExtended"
    /\ \E ok \in BOOLEAN :
         /\ Run(m_Job["moveExtendedJob"], ok)
         /\ rval' = ok
         /\ report' = IF ok THEN report ELSE Append(report, "moving extended failed")
    /\ pc' = "setStatus"
    /\ execFrame
    /\ UNCHANGED <<status, oldStart, oldLength>>

\* The phases combined without short circuit: after a phase that returned false
\* the phase next is still called.
phaseFailedNoShortCircuit(line) ==
    /\ rval' = FALSE
    /\ report' = Append(report, line)
    /\ pc' = IF pc \in {"shrinkResize", "shrinkSetGeom"} THEN "moveSetGeom"
             ELSE IF pc = "moveSetGeom" THEN "growSetGeom"
             ELSE "setStatus"

\* A phase returned false: shrink() && move() && grow() is false, and execute()
\* appends its own line after the line of the phase.
phaseFailed(line) ==
    /\ rval' = FALSE
    /\ report' = report \o <<line, "resizing/moving failed">>
    /\ pc' = "setStatus"

\* A job of a phase did not fail: on to the step next.
phaseGoesOn(next) ==
    /\ pc' = next
    /\ UNCHANGED <<rval, report>>

\* A job step whose failure is reported without the phase returning.
jobStepNoReturn(n, line, next) ==
    IF m_Job[n] # nullptr
    THEN \E ok \in BOOLEAN :
           /\ Run(m_Job[n], ok)
           /\ pc' = next
           /\ report' = IF ok THEN report ELSE Append(report, line)
           /\ UNCHANGED rval
    ELSE NoRun /\ phaseGoesOn(next)

\* A step that runs the job member n, if there is one: on failure the phase
\* returns false after the line, otherwise the phase goes on at next.
jobStep(n, line, next) ==
    IF m_Job[n] # nullptr
    THEN \E ok \in BOOLEAN :
           /\ Run(m_Job[n], ok)
           /\ IF ok THEN phaseGoesOn(next) ELSE phaseFailed(line)
    ELSE NoRun /\ phaseGoesOn(next)

\* shrink() going on to the geometry after a failed file system shrink.
ShrinkResizeNoReturn ==
    /\ pc = "shrinkResize"
    /\ jobStepNoReturn("shrinkResizeJob", "could not resize file system to shrink", "shrinkSetGeom")
    /\ execFrame
    /\ UNCHANGED <<status, oldStart, oldLength>>

\* shrink(): the file system first
ShrinkResize ==
    /\ pc = "shrinkResize"
    /\ jobStep("shrinkResizeJob", "could not resize file system to shrink", "shrinkSetGeom")
    /\ execFrame
    /\ UNCHANGED <<status, oldStart, oldLength>>

\* shrink() returning true after a failed geometry shrink.
ShrinkSetGeomNoReturn ==
    /\ pc = "shrinkSetGeom"
    /\ jobStepNoReturn("shrinkSetGeomJob", "could not shrink partition", "moveSetGeom")
    /\ execFrame
    /\ UNCHANGED <<status, oldStart, oldLength>>

\* shrink(): then the geometry; shrink() returns true and move() is next
ShrinkSetGeom ==
    /\ pc = "shrinkSetGeom"
    /\ jobStep("shrinkSetGeomJob", "could not shrink partition", "moveSetGeom")
    /\ execFrame
    /\ UNCHANGED <<status, oldStart, oldLength>>

\* move(): oldStart is read from the partition object, then the geometry is moved
MoveSetGeom ==
    /\ pc = "moveSetGeom"
    /\ oldStart' = pFirst
    /\ jobStep("moveSetGeomJob", "moving partition failed", "moveFileSystem")
    /\ execFrame
    /\ UNCHANGED <<status, oldLength>>

\* move(): the file system is moved; if that fails the rollback is next
MoveFileSystem ==
    /\ pc = "moveFileSystem"
    /\ IF m_Job["moveFileSystemJob"] # nullptr
       THEN \E ok \in BOOLEAN :
              /\ Run(m_Job["moveFileSystemJob"], ok)
              /\ IF ok
                 THEN phaseGoesOn("growSetGeom")
                 ELSE /\ pc' = "moveRollback"
                      /\ report' = Append(report, "moving the filesystem failed, rolling back")
                      /\ UNCHANGED rval
       ELSE NoRun /\ phaseGoesOn("growSetGeom")
    /\ execFrame
    /\ UNCHANGED <<status, oldStart, oldLength>>

\* The rollback of move() restoring the original length with the first sector.
MoveRollbackOrigLength ==
    /\ pc = "moveRollback"
    /\ \E ok \in BOOLEAN :
         /\ Run(SetPartGeometryJob("rollback", oldStart, origLength), ok)
         /\ report' = report \o (IF ok THEN <<>> ELSE <<"moving back failed">>)
                             \o <<"resizing/moving failed">>
    /\ rval' = FALSE
    /\ pc' = "setStatus"
    /\ execFrame
    /\ UNCHANGED <<status, oldStart, oldLength>>

\* The rollback of move() with no line when the rollback job fails.
MoveRollbackSilent ==
    /\ pc = "moveRollback"
    /\ \E ok \in BOOLEAN :
         Run(SetPartGeometryJob("rollback", oldStart, pLength), ok)
    /\ report' = Append(report, "resizing/moving failed")
    /\ rval' = FALSE
    /\ pc' = "setStatus"
    /\ execFrame
    /\ UNCHANGED <<status, oldStart, oldLength>>

\* move(): the partition is moved back to oldStart with its current length, and
\* move() returns false
MoveRollback ==
    /\ pc = "moveRollback"
    /\ \E ok \in BOOLEAN :
         /\ Run(SetPartGeometryJob("rollback", oldStart, pLength), ok)
         /\ report' = report \o (IF ok THEN <<>> ELSE <<"moving back failed">>)
                             \o <<"resizing/moving failed">>
    /\ rval' = FALSE
    /\ pc' = "setStatus"
    /\ execFrame
    /\ UNCHANGED <<status, oldStart, oldLength>>

\* grow(): oldLength is read from the partition object, then the geometry is grown
GrowSetGeom ==
    /\ pc = "growSetGeom"
    /\ oldLength' = pLength
    /\ jobStep("growSetGeomJob", "could not grow partition", "growResize")
    /\ execFrame
    /\ UNCHANGED <<status, oldStart>>

\* grow(): the file system is grown; if that fails the rollback is next
GrowResize ==
    /\ pc = "growResize"
    /\ IF m_Job["growResizeJob"] # nullptr
       THEN \E ok \in BOOLEAN :
              /\ Run(m_Job["growResizeJob"], ok)
              /\ IF ok
                 THEN phaseGoesOn("checkResized")
                 ELSE /\ pc' = "growRollback"
                      /\ report' = Append(report, "could not resize the file system")
                      /\ UNCHANGED rval
       ELSE NoRun /\ phaseGoesOn("checkResized")
    /\ execFrame
    /\ UNCHANGED <<status, oldStart, oldLength>>

\* grow() returning what the rollback job returned.
GrowRollbackDecides ==
    /\ pc = "growRollback"
    /\ \E ok \in BOOLEAN :
         /\ Run(SetPartGeometryJob("rollback", pFirst, oldLength), ok)
         /\ report' = report \o (IF ok THEN <<>>
                                 ELSE <<"could not restore old size", "resizing/moving failed">>)
         /\ rval' = ok
    /\ pc' = "setStatus"
    /\ execFrame
    /\ UNCHANGED <<status, oldStart, oldLength>>

\* grow(): the partition is set back to oldLength at its current first sector,
\* and grow() returns false
GrowRollback ==
    /\ pc = "growRollback"
    /\ \E ok \in BOOLEAN :
         /\ Run(SetPartGeometryJob("rollback", pFirst, oldLength), ok)
         /\ report' = report \o (IF ok THEN <<>> ELSE <<"could not restore old size">>)
                             \o <<"resizing/moving failed">>
    /\ rval' = FALSE
    /\ pc' = "setStatus"
    /\ execFrame
    /\ UNCHANGED <<status, oldStart, oldLength>>

\* The post-check with its result not assigned to rval.
CheckResizedResultDropped ==
    /\ pc = "checkResized"
    /\ IF canCheck
       THEN \E ok \in BOOLEAN :
              /\ Run(m_Job["checkResizedJob"], ok)
              /\ report' = IF ok THEN report ELSE Append(report, "check after failed")
              /\ UNCHANGED rval
       ELSE NoRun /\ UNCHANGED <<rval, report>>
    /\ pc' = "setStatus"
    /\ execFrame
    /\ UNCHANGED <<status, oldStart, oldLength>>

\* the three phases returned true: the post-check
CheckResized ==
    /\ pc = "checkResized"
    /\ IF canCheck
       THEN \E ok \in BOOLEAN :
              /\ Run(m_Job["checkResizedJob"], ok)
              /\ rval' = ok
              /\ report' = IF ok THEN report ELSE Append(report, "check after failed")
       ELSE NoRun /\ UNCHANGED <<rval, report>>
    /\ pc' = "setStatus"
    /\ execFrame
    /\ UNCHANGED <<status, oldStart, oldLength>>

\* The terminal status set without regard to rval.
statusOfAlwaysSuccess(r) == "FinishedSuccess"

\* The status set back to Pending when execute() failed.
statusOfPendingOnFailure(r) == IF r THEN "FinishedSuccess" ELSE "Pending"

\* setStatus(rval ? StatusFinishedSuccess : StatusError), and execute() returns rval
statusOf(r) == IF r THEN "FinishedSuccess" ELSE "Error"

SetStatus ==
    /\ pc = "setStatus"
    /\ status' = statusOf(rval)
    /\ pc' = "done"
    /\ NoRun
    /\ execFrame
    /\ UNCHANGED <<rval, oldStart, oldLength, report>>

----------------------------------------------------------------------------
\* The partition before the operation is constructed: the disk holds what the
\* partition object says, and the file system is not longer than the partition
\* (an Extended partition carries no file system).

Init ==
    /\ pFirst \in Sectors
    /\ pLast \in Sectors
    /\ pFirst <= pLast
    /\ extended \in BOOLEAN
    /\ canCheck \in BOOLEAN
    /\ diskFirst = pFirst
    /\ diskLength = Length(pFirst, pLast)
    /\ fsFirst = pFirst
    /\ fsLength \in (IF extended THEN {0} ELSE 1..Length(pFirst, pLast))
    /\ startFsLength = fsLength
    /\ m_OrigFirstSector = 0
    /\ m_OrigLastSector = 0
    /\ m_NewFirstSector = 0
    /\ m_NewLastSector = 0
    /\ m_Job = [n \in Members |-> nullptr]
    /\ jobs = <<>>
    /\ status = "None"
    /\ previewed = FALSE
    /\ pc = "new"
    /\ rval = TRUE
    /\ oldStart = 0
    /\ oldLength = 0
    /\ report = <<>>
    /\ ran = <<>>
    /\ devParts = <<>>
    /\ sect = <<>>
    /\ real = <<>>
    /\ ops = <<>>
    /\ fresh = [kind |-> "NoOp", status |-> "None"]
    /\ initial = <<>>
    /\ spc = "none"
    /\ cur = 0
    /\ popped = "None"
    /\ helperStarted = FALSE
    /\ busConnected = FALSE
    /\ exited = FALSE
    /\ launches = 0
    /\ logged = FALSE
    /\ auth = "none"
    /\ m_ExitCode = -1
    /\ lastCall = "none"
    /\ dbus = "none"
    /\ returned = FALSE
    /\ fstab = "original"
    /\ bak = "none"
    /\ tmp = "none"
    /\ wpc = "idle"
    /\ wran = <<>>
    /\ wret = FALSE
    /\ candidate = nullptr
    /\ asked = "none"
    /\ answer = FALSE

Next ==
    \/ Construct
    \/ Preview
    \/ Undo
    \/ ExecuteBegin
    \/ CheckOriginal
    \/ MoveExtended
    \/ ShrinkResize
    \/ ShrinkSetGeom
    \/ MoveSetGeom
    \/ MoveFileSystem
    \/ MoveRollback
    \/ GrowSetGeom
    \/ GrowResize
    \/ GrowRollback
    \/ CheckResized
    \/ SetStatus

\* The steps of a call of execute() after it was entered.
ExecuteStep ==
    \/ CheckOriginal
    \/ MoveExtended
    \/ ShrinkResize
    \/ ShrinkSetGeom
    \/ MoveSetGeom
    \/ MoveFileSystem
    \/ MoveRollback
    \/ GrowSetGeom
    \/ GrowResize
    \/ GrowRollback
    \/ CheckResized
    \/ SetStatus

Spec == Init /\ [][Next]_vars

\* execute() is a synchronous call and every job returns: once entered, it keeps
\* taking steps until it returns.
LiveSpec == Init /\ [][Next]_vars /\ WF_vars(ExecuteStep)

----------------------------------------------------------------------------
\* The preview device: its partitions and their table

\* Operations the stack holds at most, merged ones counted by what they replace.
MaxOps == 2

PartIds == {"sda1", "sda2"}

NoOp == [kind |-> "NoOp", status |-> "None"]

Range(first, last) == [first |-> first, last |-> last]

Overlap(a, b) == a.first <= b.last /\ b.first <= a.last

\* The partition table of the device in the model m, as the ranges in table order.
TableRanges(m) == [i \in 1..Len(m.devParts) |-> m.sect[m.devParts[i]]]

\* Operation::removePreviewPartition(): the partition leaves the table.
removePreviewPartition(parts, p) == SelectSeq(parts, LAMBDA x : x # p)

\* Operation::insertPreviewPartition(): the partition enters the table before the
\* first partition that starts after it.
insertPreviewPartition(parts, sec, p) ==
    LET later == {i \in 1..Len(parts) : sec[parts[i]].first > sec[p].first}
        k == IF later = {} THEN Len(parts) + 1
             ELSE CHOOSE i \in later : \A j \in later : i <= j
    IN  SubSeq(parts, 1, k - 1) \o <<p>> \o SubSeq(parts, k, Len(parts))

\* preview() with the new sectors set only when the partition is not at them.
previewOnToggling(op, m) ==
    LET p == op.part
        atNew == m.sect[p].first = op.newFirst /\ m.sect[p].last = op.newLast
        s1 == IF atNew THEN [m.sect EXCEPT ![p] = Range(op.origFirst, op.origLast)]
              ELSE [m.sect EXCEPT ![p] = Range(op.newFirst, op.newLast)]
        parts1 == removePreviewPartition(m.devParts, p)
    IN  [devParts |-> insertPreviewPartition(parts1, s1, p), sect |-> s1]

\* preview() inserting the partition without removing it first.
previewOnNoRemove(op, m) ==
    LET p == op.part
        s2 == [m.sect EXCEPT ![p] = Range(op.newFirst, op.newLast)]
    IN  [devParts |-> insertPreviewPartition(m.devParts, s2, p), sect |-> s2]

\* ResizeOperation::preview() of op on the model m = [devParts, sect]
previewOn(op, m) ==
    LET p == op.part
        atNew == m.sect[p].first = op.newFirst /\ m.sect[p].last = op.newLast
        s1 == IF atNew THEN [m.sect EXCEPT ![p] = Range(op.origFirst, op.origLast)]
              ELSE m.sect
        parts1 == removePreviewPartition(m.devParts, p)
        s2 == [s1 EXCEPT ![p] = Range(op.newFirst, op.newLast)]
    IN  [devParts |-> insertPreviewPartition(parts1, s2, p), sect |-> s2]

\* undo() setting the last sector back to the new last sector.
undoOnNewLast(op, m) ==
    LET p == op.part
        parts1 == removePreviewPartition(m.devParts, p)
        s1 == [m.sect EXCEPT ![p] = Range(op.origFirst, op.newLast)]
    IN  [devParts |-> insertPreviewPartition(parts1, s1, p), sect |-> s1]

\* ResizeOperation::undo() of op on the model m = [devParts, sect]
undoOn(op, m) ==
    LET p == op.part
        parts1 == removePreviewPartition(m.devParts, p)
        s1 == [m.sect EXCEPT ![p] = Range(op.origFirst, op.origLast)]
    IN  [devParts |-> insertPreviewPartition(parts1, s1, p), sect |-> s1]

Model == [devParts |-> devParts, sect |-> sect]

\* Only the first partition of the device can carry the Extended role.
IsExtended(p) == extended /\ p = "sda1"

----------------------------------------------------------------------------
\* Operations of the stack

\* What the user asked for: a resize of part from its range then to a new range.
Request(part, origFirst, origLast, newFirst, newLast) ==
    [part |-> part, origFirst |-> origFirst, origLast |-> origLast,
     newFirst |-> newFirst, newLast |-> newLast]

\* A ResizeOperation constructed on part, whose partition object is at range.
ResizeOp(part, range, newFirst, newLast, originals) ==
    LET c == ctor(IsExtended(part), canCheck, range.first, range.last, newFirst, newLast)
    IN  [kind |-> "Resize", part |-> part,
         origFirst |-> range.first, origLast |-> range.last,
         newFirst |-> newFirst, newLast |-> newLast,
         members |-> c.members, jobs |-> c.jobs,
         status |-> "None", originals |-> originals]

\* An Operation of another kind, of which only the status matters here.
OtherOp ==
    [kind |-> "Other", part |-> "none", origFirst |-> 0, origLast |-> 0,
     newFirst |-> 0, newLast |-> 0, members |-> [n \in Members |-> nullptr],
     jobs |-> <<>>, status |-> "None", originals |-> <<>>]

\* How many requested operations the stack stands for.
Requested == Len(ops) + Len(SelectSeq(ops, LAMBDA o : Len(o.originals) > 1))

\* The caller hands in a range inside the device that overlaps no other partition.
ValidRange(part, newFirst, newLast) ==
    /\ newFirst \in Sectors
    /\ newLast \in Sectors
    /\ newFirst <= newLast
    /\ \A q \in PartIds \ {part} : ~Overlap(Range(newFirst, newLast), sect[q])

\* The constructor changing the partition object to the new range at once.
ConstructOpModifying(part, newFirst, newLast) ==
    /\ spc = "staging"
    /\ fresh = NoOp
    /\ Requested < MaxOps
    /\ ValidRange(part, newFirst, newLast)
    /\ fresh' = ResizeOp(part, sect[part], newFirst, newLast,
                         <<Request(part, sect[part].first, sect[part].last, newFirst, newLast)>>)
    /\ sect' = [sect EXCEPT ![part] = Range(newFirst, newLast)]
    /\ UNCHANGED <<devParts, real, ops, initial, spc, cur, popped>>
    /\ UNCHANGED <<partVars, attrVars, askVars, cmdVars, fstabVars, diskVars, startFsLength, opVars, status, previewed, pc, execVars>>

\* new ResizeOperation(device, partition, newFirst, newLast), not yet pushed
ConstructOp(part, newFirst, newLast) ==
    /\ spc = "staging"
    /\ fresh = NoOp
    /\ Requested < MaxOps
    /\ ValidRange(part, newFirst, newLast)
    /\ fresh' = ResizeOp(part, sect[part], newFirst, newLast,
                         <<Request(part, sect[part].first, sect[part].last, newFirst, newLast)>>)
    /\ UNCHANGED <<devParts, sect, real, ops, initial, spc, cur, popped>>
    /\ UNCHANGED <<partVars, attrVars, askVars, cmdVars, fstabVars, diskVars, startFsLength, opVars, status, previewed, pc, execVars>>

\* An operation of another kind is constructed.
ConstructOther ==
    /\ spc = "staging"
    /\ fresh = NoOp
    /\ Requested < MaxOps
    /\ fresh' = OtherOp
    /\ UNCHANGED <<devParts, sect, real, ops, initial, spc, cur, popped>>
    /\ UNCHANGED <<partVars, attrVars, askVars, cmdVars, fstabVars, diskVars, startFsLength, opVars, status, previewed, pc, execVars>>

\* The model after op.preview(): operations of another kind leave it alone here.
Previewed(op, m) == IF op.kind = "Resize" THEN previewOn(op, m) ELSE m
Undone(op, m) == IF op.kind = "Resize" THEN undoOn(op, m) ELSE m

\* OperationStack::push() without merge: preview, then append as Pending.
Push ==
    /\ spc = "staging"
    /\ fresh # NoOp
    /\ LET m == Previewed(fresh, Model)
       IN  /\ devParts' = m.devParts
           /\ sect' = m.sect
    /\ ops' = Append(ops, [fresh EXCEPT !.status = "Pending"])
    /\ fresh' = NoOp
    /\ UNCHANGED <<real, initial, spc, cur, popped>>
    /\ UNCHANGED <<partVars, attrVars, askVars, cmdVars, fstabVars, diskVars, startFsLength, opVars, status, previewed, pc, execVars>>

\* Two consecutive resizes of the same partition, the first still Pending.
CanMerge(top, op) ==
    /\ top.kind = "Resize"
    /\ op.kind = "Resize"
    /\ top.part = op.part
    /\ top.status = "Pending"

\* The operation that replaces top and op: from where top started to where op ends.
Merged(top, op, m) ==
    ResizeOp(op.part, m.sect[op.part], op.newFirst, op.newLast, top.originals \o op.originals)

\* OperationStack::push() with merge: the previous operation is undone and
\* discarded, and one operation spanning both takes its place.
PushMerge ==
    /\ spc = "staging"
    /\ fresh # NoOp
    /\ Len(ops) > 0
    /\ CanMerge(ops[Len(ops)], fresh)
    /\ LET top == ops[Len(ops)]
           m1 == undoOn(top, Model)
           repl == Merged(top, fresh, m1)
           m2 == previewOn(repl, m1)
       IN  /\ devParts' = m2.devParts
           /\ sect' = m2.sect
           /\ ops' = [ops EXCEPT ![Len(ops)] = [repl EXCEPT !.status = "Pending"]]
    /\ fresh' = NoOp
    /\ UNCHANGED <<real, initial, spc, cur, popped>>
    /\ UNCHANGED <<partVars, attrVars, askVars, cmdVars, fstabVars, diskVars, startFsLength, opVars, status, previewed, pc, execVars>>

\* preview() called once more on the operation on top of the stack.
PreviewAgain ==
    /\ spc = "staging"
    /\ Len(ops) > 0
    /\ LET m == Previewed(ops[Len(ops)], Model)
       IN  /\ devParts' = m.devParts
           /\ sect' = m.sect
    /\ UNCHANGED <<real, ops, fresh, initial, spc, cur, popped>>
    /\ UNCHANGED <<partVars, attrVars, askVars, cmdVars, fstabVars, diskVars, startFsLength, opVars, status, previewed, pc, execVars>>

\* pop() whatever the status of the top operation.
PopAnyStatus ==
    /\ spc \in {"staging", "finished"}
    /\ fresh = NoOp
    /\ Len(ops) > 0
    /\ LET m == Undone(ops[Len(ops)], Model)
       IN  /\ devParts' = m.devParts
           /\ sect' = m.sect
    /\ ops' = SubSeq(ops, 1, Len(ops) - 1)
    /\ popped' = ops[Len(ops)].status
    /\ UNCHANGED <<real, fresh, initial, spc, cur>>
    /\ UNCHANGED <<partVars, attrVars, askVars, cmdVars, fstabVars, diskVars, startFsLength, opVars, status, previewed, pc, execVars>>

\* OperationStack::pop(): the top operation, if Pending, is undone and removed.
Pop ==
    /\ spc \in {"staging", "finished"}
    /\ fresh = NoOp
    /\ Len(ops) > 0
    /\ ops[Len(ops)].status = "Pending"
    /\ LET m == Undone(ops[Len(ops)], Model)
       IN  /\ devParts' = m.devParts
           /\ sect' = m.sect
    /\ ops' = SubSeq(ops, 1, Len(ops) - 1)
    /\ popped' = ops[Len(ops)].status
    /\ UNCHANGED <<real, fresh, initial, spc, cur>>
    /\ UNCHANGED <<partVars, attrVars, askVars, cmdVars, fstabVars, diskVars, startFsLength, opVars, status, previewed, pc, execVars>>

\* OperationStack::execute() begins, at the oldest operation.
StackExecute ==
    /\ spc = "staging"
    /\ fresh = NoOp
    /\ Len(ops) > 0
    /\ spc' = "executing"
    /\ cur' = 1
    /\ UNCHANGED <<devParts, sect, real, ops, fresh, initial, popped>>
    /\ UNCHANGED <<partVars, attrVars, askVars, cmdVars, fstabVars, diskVars, startFsLength, opVars, status, previewed, pc, execVars>>

\* The fields of op and the state of its partition become those execute() works
\* on, with the status s.
Enter(op, s) ==
    /\ status' = s
    /\ m_OrigFirstSector' = op.origFirst
    /\ m_OrigLastSector' = op.origLast
    /\ m_NewFirstSector' = op.newFirst
    /\ m_NewLastSector' = op.newLast
    /\ m_Job' = op.members
    /\ jobs' = op.jobs
    /\ previewed' = TRUE
    /\ rval' = TRUE
    /\ oldStart' = 0
    /\ oldLength' = 0
    /\ report' = <<>>
    /\ ran' = <<>>
    /\ IF op.kind = "Resize"
       THEN /\ pFirst' = sect[op.part].first
            /\ pLast' = sect[op.part].last
            /\ diskFirst' = real[op.part].first
            /\ diskLength' = real[op.part].length
            /\ fsFirst' = real[op.part].fsFirst
            /\ fsLength' = real[op.part].fsLength
            /\ startFsLength' = real[op.part].fsLength
            /\ pc' = "checkOriginal"
       ELSE /\ UNCHANGED <<partVars, diskVars, startFsLength>>
            /\ pc' = "other"

\* The stack sets the operation at cur Running and calls its execute().
StackRunOp ==
    /\ spc = "executing"
    /\ pc = "stack"
    /\ ops[cur].status = "Pending"
    /\ Enter(ops[cur], "Running")
    /\ ops' = [ops EXCEPT ![cur].status = "Running"]
    /\ UNCHANGED <<attrVars, askVars, cmdVars, fstabVars, devParts, sect, real, fresh, initial, spc, cur, popped>>

\* execute() of an operation of another kind: it ends in a terminal status and
\* returns true unless that is Error.
OtherExecute ==
    /\ pc = "other"
    /\ \E s \in {"FinishedSuccess", "FinishedWarning", "Error"} :
         /\ status' = s
         /\ rval' = (s # "Error")
    /\ pc' = "done"
    /\ NoRun
    /\ execFrame
    /\ UNCHANGED <<oldStart, oldLength, report>>

\* What execute() left of the partition of op: its object and its state on disk.
Left(op) ==
    /\ ops' = [ops EXCEPT ![cur].status = status]
    /\ IF op.kind = "Resize"
       THEN /\ sect' = [sect EXCEPT ![op.part] = Range(pFirst, pLast)]
            /\ real' = [real EXCEPT ![op.part] =
                          [first |-> diskFirst, length |-> diskLength,
                           fsFirst |-> fsFirst, fsLength |-> fsLength]]
       ELSE UNCHANGED <<sect, real>>
    /\ pc' = "stack"
    /\ UNCHANGED <<devParts, fresh, initial, popped>>
    /\ UNCHANGED <<partVars, attrVars, askVars, cmdVars, fstabVars, diskVars, startFsLength, opVars, status, previewed, execVars>>

\* The stack going on to the next operation whatever the last one returned.
StackOpDoneGoesOn ==
    /\ spc = "executing"
    /\ pc = "done"
    /\ Left(ops[cur])
    /\ IF cur < Len(ops)
       THEN cur' = cur + 1 /\ UNCHANGED spc
       ELSE spc' = "finished" /\ UNCHANGED cur

\* execute() of the operation at cur returned: the stack goes on to the next
\* operation unless this one ended in error or was the last.
StackOpDone ==
    /\ spc = "executing"
    /\ pc = "done"
    /\ Left(ops[cur])
    /\ IF status # "Error" /\ cur < Len(ops)
       THEN cur' = cur + 1 /\ UNCHANGED spc
       ELSE spc' = "finished" /\ UNCHANGED cur

\* A device with two partitions that do not overlap, in table order, the disk
\* holding what the preview says, and an empty stack.
StackInit ==
    /\ extended \in BOOLEAN
    /\ canCheck \in BOOLEAN
    /\ devParts = <<"sda1", "sda2">>
    /\ sect \in [PartIds -> {Range(f, l) : f \in Sectors, l \in Sectors}]
    /\ \A q \in PartIds : sect[q].first <= sect[q].last
    /\ sect["sda1"].last < sect["sda2"].first
    /\ real = [q \in PartIds |->
                 [first |-> sect[q].first, length |-> Length(sect[q].first, sect[q].last),
                  fsFirst |-> sect[q].first,
                  fsLength |-> IF IsExtended(q) THEN 0 ELSE Length(sect[q].first, sect[q].last)]]
    /\ ops = <<>>
    /\ fresh = NoOp
    /\ initial = [devParts |-> devParts, sect |-> sect]
    /\ spc = "staging"
    /\ cur = 0
    /\ popped = "None"
    /\ helperStarted = FALSE
    /\ busConnected = FALSE
    /\ exited = FALSE
    /\ launches = 0
    /\ logged = FALSE
    /\ auth = "none"
    /\ m_ExitCode = -1
    /\ lastCall = "none"
    /\ dbus = "none"
    /\ returned = FALSE
    /\ fstab = "original"
    /\ bak = "none"
    /\ tmp = "none"
    /\ wpc = "idle"
    /\ wran = <<>>
    /\ wret = FALSE
    /\ candidate = nullptr
    /\ asked = "none"
    /\ answer = FALSE
    /\ pFirst = 0
    /\ pLast = 0
    /\ diskFirst = 0
    /\ diskLength = 0
    /\ fsFirst = 0
    /\ fsLength = 0
    /\ startFsLength = 0
    /\ m_OrigFirstSector = 0
    /\ m_OrigLastSector = 0
    /\ m_NewFirstSector = 0
    /\ m_NewLastSector = 0
    /\ m_Job = [n \in Members |-> nullptr]
    /\ jobs = <<>>
    /\ status = "None"
    /\ previewed = FALSE
    /\ pc = "stack"
    /\ rval = TRUE
    /\ oldStart = 0
    /\ oldLength = 0
    /\ report = <<>>
    /\ ran = <<>>

StackNext ==
    \/ \E part \in PartIds, newFirst \in Sectors, newLast \in Sectors :
         ConstructOp(part, newFirst, newLast)
    \/ ConstructOther
    \/ Push
    \/ PushMerge
    \/ PreviewAgain
    \/ Pop
    \/ StackExecute
    \/ StackRunOp
    \/ OtherExecute
    \/ ExecuteStep
    \/ StackOpDone

StackSpec == StackInit /\ [][StackNext]_vars

----------------------------------------------------------------------------
\* ResizeOperation::canGrow, canShrink, canMove

PartitionStates == {"None", "New", "Copy"}
TableTypes == {"none", "msdos"}
FileSystemTypes == {"Ext4", "Lvm2_PV", "Luks", "Luks2"}
InnerFileSystems == {"nullptr", "Ext4", "Lvm2_PV"}
CommandSupportTypes == {"cmdSupportNone", "cmdSupportFileSystem"}

\* The partitions canGrow, canShrink and canMove are asked about: only a LUKS
\* file system has an inner file system.
Partitions ==
    {q \in [tableType : TableTypes, state : PartitionStates,
            luks : BOOLEAN, extendedRole : BOOLEAN, hasChildren : BOOLEAN,
            isMounted : BOOLEAN, fsType : FileSystemTypes, innerFS : InnerFileSystems,
            dirtyPV : BOOLEAN,
            supportGrow : CommandSupportTypes, supportShrink : CommandSupportTypes,
            supportMove : CommandSupportTypes,
            supportGrowOnline : BOOLEAN, supportShrinkOnline : BOOLEAN] :
       /\ q.fsType \notin {"Luks", "Luks2"} => q.innerFS = "nullptr"
       /\ q.hasChildren => q.extendedRole}

\* isLVMPVinNewlyVG() looking at the file system of the partition only.
isLVMPVinNewlyVGDirectOnly(q) ==
    IF q.fsType = "Lvm2_PV" THEN q.dirtyPV ELSE FALSE

\* ResizeOperation::isLVMPVinNewlyVG(): q.dirtyPV is LvmDevice::s_DirtyPVs.contains(p)
isLVMPVinNewlyVG(q) ==
    IF q.fsType = "Lvm2_PV"
    THEN q.dirtyPV
    ELSE IF q.fsType \in {"Luks", "Luks2"}
    THEN q.innerFS # "nullptr" /\ q.innerFS = "Lvm2_PV" /\ q.dirtyPV
    ELSE FALSE

\* canGrow() with the test for a new partition before the one for the table.
canGrowNewFirst(q) ==
    IF q = nullptr THEN FALSE
    ELSE IF q.state = "New" /\ ~q.luks THEN TRUE
    ELSE IF q.tableType = "none" THEN FALSE
    ELSE IF isLVMPVinNewlyVG(q) THEN FALSE
    ELSE IF q.isMounted THEN q.supportGrowOnline
    ELSE q.supportGrow # "cmdSupportNone"

\* ResizeOperation::canGrow()
canGrow(q) ==
    IF q = nullptr THEN FALSE
    ELSE IF q.tableType = "none" THEN FALSE
    ELSE IF isLVMPVinNewlyVG(q) THEN FALSE
    ELSE IF q.state = "New" /\ ~q.luks THEN TRUE
    ELSE IF q.isMounted THEN q.supportGrowOnline
    ELSE q.supportGrow # "cmdSupportNone"

\* canShrink() with the test for a copied partition after the one for a mounted.
canShrinkCopyAfterMounted(q) ==
    IF q = nullptr THEN FALSE
    ELSE IF q.tableType = "none" THEN FALSE
    ELSE IF isLVMPVinNewlyVG(q) THEN FALSE
    ELSE IF q.state = "New" /\ ~q.luks THEN TRUE
    ELSE IF q.isMounted THEN q.supportShrinkOnline
    ELSE IF q.state = "Copy" THEN FALSE
    ELSE q.supportShrink # "cmdSupportNone"

\* ResizeOperation::canShrink()
canShrink(q) ==
    IF q = nullptr THEN FALSE
    ELSE IF q.tableType = "none" THEN FALSE
    ELSE IF isLVMPVinNewlyVG(q) THEN FALSE
    ELSE IF q.state = "New" /\ ~q.luks THEN TRUE
    ELSE IF q.state = "Copy" THEN FALSE
    ELSE IF q.isMounted THEN q.supportShrinkOnline
    ELSE q.supportShrink # "cmdSupportNone"

\* canMove() without the test for a mounted partition.
canMoveMounted(q) ==
    IF q = nullptr THEN FALSE
    ELSE IF q.tableType = "none" THEN FALSE
    ELSE IF isLVMPVinNewlyVG(q) THEN FALSE
    ELSE IF q.state = "New" THEN (IF q.luks THEN FALSE ELSE TRUE)
    ELSE IF q.extendedRole /\ q.hasChildren THEN FALSE
    ELSE q.supportMove # "cmdSupportNone"

\* ResizeOperation::canMove()
canMove(q) ==
    IF q = nullptr THEN FALSE
    ELSE IF q.tableType = "none" THEN FALSE
    ELSE IF isLVMPVinNewlyVG(q) THEN FALSE
    ELSE IF q.state = "New" THEN (IF q.luks THEN FALSE ELSE TRUE)
    ELSE IF q.isMounted THEN FALSE
    ELSE IF q.extendedRole /\ q.hasChildren THEN FALSE
    ELSE q.supportMove # "cmdSupportNone"

askFrame ==
    UNCHANGED <<partVars, attrVars, diskVars, startFsLength, opVars, status, previewed,
                pc, execVars, stackVars, candidate, cmdVars, fstabVars>>

CanGrow ==
    /\ asked' = "canGrow"
    /\ answer' = canGrow(candidate)
    /\ askFrame

CanShrink ==
    /\ asked' = "canShrink"
    /\ answer' = canShrink(candidate)
    /\ askFrame

CanMove ==
    /\ asked' = "canMove"
    /\ answer' = canMove(candidate)
    /\ askFrame

\* Any partition, or none, and no call yet; no operation and no stack.
CanInit ==
    /\ candidate \in Partitions \cup {nullptr}
    /\ asked = "none"
    /\ answer = FALSE
    /\ extended = FALSE
    /\ canCheck = FALSE
    /\ pFirst = 0
    /\ pLast = 0
    /\ diskFirst = 0
    /\ diskLength = 0
    /\ fsFirst = 0
    /\ fsLength = 0
    /\ startFsLength = 0
    /\ m_OrigFirstSector = 0
    /\ m_OrigLastSector = 0
    /\ m_NewFirstSector = 0
    /\ m_NewLastSector = 0
    /\ m_Job = [n \in Members |-> nullptr]
    /\ jobs = <<>>
    /\ status = "None"
    /\ previewed = FALSE
    /\ pc = "none"
    /\ rval = TRUE
    /\ oldStart = 0
    /\ oldLength = 0
    /\ report = <<>>
    /\ ran = <<>>
    /\ devParts = <<>>
    /\ sect = <<>>
    /\ real = <<>>
    /\ ops = <<>>
    /\ fresh = NoOp
    /\ initial = <<>>
    /\ spc = "none"
    /\ cur = 0
    /\ popped = "None"
    /\ helperStarted = FALSE
    /\ busConnected = FALSE
    /\ exited = FALSE
    /\ launches = 0
    /\ logged = FALSE
    /\ auth = "none"
    /\ m_ExitCode = -1
    /\ lastCall = "none"
    /\ dbus = "none"
    /\ returned = FALSE
    /\ fstab = "original"
    /\ bak = "none"
    /\ tmp = "none"
    /\ wpc = "idle"
    /\ wran = <<>>
    /\ wret = FALSE

CanNext ==
    \/ CanGrow
    \/ CanShrink
    \/ CanMove

CanSpec == CanInit /\ [][CanNext]_vars

-----------------------------------------------------------------------------
\* ExternalCommand: the command object and the helper it talks to over D-Bus

ExitCodes == {0, 1}

\* How a D-Bus call can finish: with an error (no valid reply), or with the
\* helper's reply carrying its success flag and the exit code of the process.
DBusOutcomes ==
    {[kind |-> "error"]}
        \cup {[kind |-> "reply", success |-> s, exitCode |-> e] : s \in BOOLEAN, e \in ExitCodes}

AuthOutcomes == {"newData", "error"}

\* startHelper(): valid says that the helper interface is already registered,
\* a how the event loop waiting for the authorization job ends.
startHelper(conn, valid, a) ==
    IF ~conn THEN [started |-> FALSE, rval |-> FALSE, exits |-> FALSE, auth |-> "none"]
    ELSE IF valid THEN [started |-> FALSE, rval |-> FALSE, exits |-> TRUE, auth |-> "none"]
    ELSE [started |-> TRUE, rval |-> TRUE, exits |-> FALSE, auth |-> a]

\* The constructor without Report, as far as the helper goes.
constructHelper(valid, a) ==
    IF ~helperStarted
       THEN LET r == startHelper(busConnected, valid, a)
            IN  /\ helperStarted' = (helperStarted \/ r.started)
                /\ exited' = r.exits
                /\ launches' = IF r.started THEN launches + 1 ELSE launches
                /\ logged' = (~r.exits /\ ~r.rval)
                /\ auth' = r.auth
       ELSE /\ logged' = FALSE
            /\ UNCHANGED <<helperStarted, exited, launches, auth>>

start(conn, empty, out, exitCode) ==
    IF empty THEN [rval |-> FALSE, exitCode |-> exitCode, dbus |-> "none"]
    ELSE IF ~conn THEN [rval |-> FALSE, exitCode |-> exitCode, dbus |-> "none"]
    ELSE IF out.kind = "error" THEN [rval |-> FALSE, exitCode |-> exitCode, dbus |-> "error"]
    ELSE [rval |-> out.success, exitCode |-> out.exitCode, dbus |-> "reply"]

run(conn, empty, out, exitCode) == start(conn, empty, out, exitCode)

copyBlocks(conn, out, exitCode) ==
    IF ~conn THEN [rval |-> FALSE, exitCode |-> exitCode, dbus |-> "none"]
    ELSE LET r == IF out.kind = "error" THEN TRUE ELSE out.success
         IN  [rval |-> r, exitCode |-> IF r THEN 0 ELSE 1, dbus |-> out.kind]

writeData(conn, out, exitCode) ==
    IF ~conn THEN [rval |-> FALSE, exitCode |-> exitCode, dbus |-> "none"]
    ELSE LET r == IF out.kind = "error" THEN TRUE ELSE out.success
         IN  [rval |-> r, exitCode |-> IF r THEN 0 ELSE 1, dbus |-> out.kind]

cmdFrame ==
    UNCHANGED <<partVars, attrVars, diskVars, startFsLength, opVars, status, previewed,
                pc, execVars, stackVars, askVars>>

Usable == ~exited /\ wpc \in {"idle", "returned"}

NewExternalCommand ==
    /\ Usable
    /\ \E valid \in BOOLEAN, a \in AuthOutcomes : constructHelper(valid, a)
    /\ m_ExitCode' = -1
    /\ lastCall' = "ExternalCommand"
    /\ dbus' = "none"
    /\ returned' = FALSE
    /\ UNCHANGED <<busConnected, fstabVars>>
    /\ cmdFrame

NewExternalCommandWithReport ==
    /\ Usable
    /\ m_ExitCode' = -1
    /\ lastCall' = "ExternalCommand"
    /\ dbus' = "none"
    /\ returned' = FALSE
    /\ logged' = FALSE
    /\ UNCHANGED <<helperStarted, busConnected, exited, launches, auth, fstabVars>>
    /\ cmdFrame

Called(name, r) ==
    /\ lastCall' = name
    /\ returned' = r.rval
    /\ m_ExitCode' = r.exitCode
    /\ dbus' = r.dbus
    /\ UNCHANGED <<helperStarted, busConnected, exited, launches, logged, auth, fstabVars>>
    /\ cmdFrame

Start ==
    /\ Usable
    /\ lastCall # "none"
    /\ \E empty \in BOOLEAN, out \in DBusOutcomes :
          Called("start", start(busConnected, empty, out, m_ExitCode))

CopyBlocks ==
    /\ Usable
    /\ lastCall # "none"
    /\ \E out \in DBusOutcomes : Called("copyBlocks", copyBlocks(busConnected, out, m_ExitCode))

WriteData ==
    /\ Usable
    /\ lastCall # "none"
    /\ \E out \in DBusOutcomes : Called("writeData", writeData(busConnected, out, m_ExitCode))

-----------------------------------------------------------------------------
\* writeMountpoints(): the fstab file, its backup and the temporary file

\* What the helper's mv did to the files: the move took place exactly when the
\* helper replied with success and the exit code 0 of mv.
mvMoved(r) == r.dbus = "reply" /\ r.rval /\ r.exitCode = 0

\* The condition of both if statements: mvCmd.run(-1) && mvCmd.exitCode() == 0
mvSucceededRunOnly(r) == r.rval

mvSucceeded(r) == r.rval /\ r.exitCode = 0

MvRun(cmd, r) == [cmd |-> cmd, rval |-> r.rval, exitCode |-> r.exitCode, moved |-> mvMoved(r)]

WriteMountpointsOpen ==
    /\ ~exited
    /\ wpc = "idle"
    /\ \E opened \in BOOLEAN :
          IF opened
             THEN tmp' = "entries" /\ wpc' = "backup" /\ UNCHANGED wret
             ELSE wret' = FALSE /\ wpc' = "returned" /\ UNCHANGED tmp
    /\ UNCHANGED <<fstab, bak, wran, cmdVars>>
    /\ cmdFrame

\* ExternalCommand mvCmd("mv", { filename, bakFilename }) and the if on its run
WriteMountpointsBackup ==
    /\ ~exited
    /\ wpc = "backup"
    /\ \E valid \in BOOLEAN, a \in AuthOutcomes : constructHelper(valid, a)
    /\ IF exited'
          THEN UNCHANGED fstabVars
          ELSE \E out \in DBusOutcomes :
                  LET r == run(busConnected, FALSE, out, -1)
                  IN  /\ wran' = Append(wran, MvRun("backup", r))
                      /\ IF mvMoved(r)
                            THEN bak' = fstab /\ fstab' = "missing"
                            ELSE UNCHANGED <<fstab, bak>>
                      /\ IF mvSucceeded(r)
                            THEN wpc' = "replace" /\ UNCHANGED wret
                            ELSE wret' = FALSE /\ wpc' = "returned"
                      /\ UNCHANGED tmp
    /\ UNCHANGED <<busConnected, m_ExitCode, lastCall, dbus, returned>>
    /\ cmdFrame

\* ExternalCommand mvCmd2("mv", { out.fileName(), filename }) and the if on its run
WriteMountpointsReplace ==
    /\ ~exited
    /\ wpc = "replace"
    /\ \E valid \in BOOLEAN, a \in AuthOutcomes : constructHelper(valid, a)
    /\ IF exited'
          THEN UNCHANGED fstabVars
          ELSE \E out \in DBusOutcomes :
                  LET r == run(busConnected, FALSE, out, -1)
                  IN  /\ wran' = Append(wran, MvRun("replace", r))
                      /\ IF mvMoved(r)
                            THEN fstab' = tmp /\ tmp' = "none"
                            ELSE UNCHANGED <<fstab, tmp>>
                      /\ wret' = mvSucceeded(r)
                      /\ wpc' = "returned"
                      /\ UNCHANGED bak
    /\ UNCHANGED <<busConnected, m_ExitCode, lastCall, dbus, returned>>
    /\ cmdFrame

CommandInit ==
    /\ helperStarted = FALSE
    /\ busConnected \in BOOLEAN
    /\ exited = FALSE
    /\ launches = 0
    /\ logged = FALSE
    /\ auth = "none"
    /\ m_ExitCode = -1
    /\ lastCall = "none"
    /\ dbus = "none"
    /\ returned = FALSE
    /\ fstab = "original"
    /\ bak \in {"none", "older"}
    /\ tmp = "none"
    /\ wpc = "idle"
    /\ wran = <<>>
    /\ wret = FALSE
    /\ candidate = nullptr
    /\ asked = "none"
    /\ answer = FALSE
    /\ extended = FALSE
    /\ canCheck = FALSE
    /\ pFirst = 0
    /\ pLast = 0
    /\ diskFirst = 0
    /\ diskLength = 0
    /\ fsFirst = 0
    /\ fsLength = 0
    /\ startFsLength = 0
    /\ m_OrigFirstSector = 0
    /\ m_OrigLastSector = 0
    /\ m_NewFirstSector = 0
    /\ m_NewLastSector = 0
    /\ m_Job = [n \in Members |-> nullptr]
    /\ jobs = <<>>
    /\ status = "None"
    /\ previewed = FALSE
    /\ pc = "none"
    /\ rval = TRUE
    /\ oldStart = 0
    /\ oldLength = 0
    /\ report = <<>>
    /\ ran = <<>>
    /\ devParts = <<>>
    /\ sect = <<>>
    /\ real = <<>>
    /\ ops = <<>>
    /\ fresh = NoOp
    /\ initial = <<>>
    /\ spc = "none"
    /\ cur = 0
    /\ popped = "None"

CommandNext ==
    \/ NewExternalCommand
    \/ NewExternalCommandWithReport
    \/ Start
    \/ CopyBlocks
    \/ WriteData
    \/ WriteMountpointsOpen
    \/ WriteMountpointsBackup
    \/ WriteMountpointsReplace

CommandSpec == CommandInit /\ [][CommandNext]_vars

----------------------------------------------------------------------------
\* Vocabulary of the properties

IsPrefix(s, t) == Len(s) <= Len(t) /\ \A i \in 1..Len(s) : s[i] = t[i]

\* The jobs that were run, without their outcomes.
RanJobs == [i \in 1..Len(ran) |-> ran[i].job]

IsComposed(r) == r.job.name # "rollback"
IsRollback(r) == r.job.name = "rollback"
IsResizeMoveJob(j) == j.kind \in {"SetPartGeometryJob", "ResizeFileSystemJob", "MoveFileSystemJob"}
IsResizeMoveRun(r) == IsComposed(r) /\ IsResizeMoveJob(r.job)

\* The job member n was run and succeeded / failed.
Succeeded(n) == \E i \in 1..Len(ran) : ran[i].job.name = n /\ ran[i].ok
Failed(n) == \E i \in 1..Len(ran) : ran[i].job.name = n /\ ~ran[i].ok

Constructed == pc # "new"
Executing == pc \notin {"new", "idle"}

\* The order of the specification: each step with the bit that calls for it.
CanonicalOrder ==
    <<[name |-> "shrinkResizeJob",   kind |-> "ResizeFileSystemJob", bits |-> {"Shrink"}],
      [name |-> "shrinkSetGeomJob",  kind |-> "SetPartGeometryJob",  bits |-> {"Shrink"}],
      [name |-> "moveSetGeomJob",    kind |-> "SetPartGeometryJob",  bits |-> {"MoveLeft", "MoveRight"}],
      [name |-> "moveFileSystemJob", kind |-> "MoveFileSystemJob",   bits |-> {"MoveLeft", "MoveRight"}],
      [name |-> "growSetGeomJob",    kind |-> "SetPartGeometryJob",  bits |-> {"Grow"}],
      [name |-> "growResizeJob",     kind |-> "ResizeFileSystemJob", bits |-> {"Grow"}]>>

NameAndKind(list) == [i \in 1..Len(list) |-> <<list[i].name, list[i].kind>>]

ExpectedOrder ==
    LET called(c) == Has(c.bits, resizeAction)
    IN  NameAndKind(SelectSeq(CanonicalOrder, called))

\* C1: on a non-Extended partition the resize/move jobs of the job list are, in
\* this order, shrink file system, shrink geometry, move geometry, move file
\* system, grow geometry, grow file system, each pair there exactly when its bit
\* is set; execute() runs them in that order, all of them when none fails.
C1_JobOrder ==
    (Constructed /\ ~extended) =>
        LET listed == NameAndKind(SelectSeq(jobs, IsResizeMoveJob))
            runResizeMove == NameAndKind([i \in 1..Len(SelectSeq(ran, IsResizeMoveRun))
                                            |-> SelectSeq(ran, IsResizeMoveRun)[i].job])
        IN  /\ listed = ExpectedOrder
            /\ IsPrefix(runResizeMove, ExpectedOrder)
            /\ (pc = "done" /\ rval) => runResizeMove = ExpectedOrder

C1_Witness ==
    /\ pc = "done"
    /\ ~extended
    /\ rval
    /\ resizeAction = MoveLeftGrow
    /\ Len(SelectSeq(ran, IsResizeMoveRun)) = 4

\* C2: the composed jobs that execute() ran are a prefix of the job list, in list
\* order; only the last of them can have failed, and execute() ends with the
\* whole list run or with a failed job; at most one compensating geometry job is
\* run, after everything else; no job is run twice.
C2_RunIsPrefixOfJobList ==
    Constructed =>
        LET composed == SelectSeq(ran, IsComposed)
            rollbacks == SelectSeq(ran, IsRollback)
        IN  /\ IsPrefix([i \in 1..Len(composed) |-> composed[i].job], jobs)
            /\ \A i \in 1..Len(composed) : ~composed[i].ok => i = Len(composed)
            /\ Len(rollbacks) <= 1
            /\ \A i \in 1..Len(ran) :
                 IsRollback(ran[i]) =>
                     /\ i = Len(ran)
                     /\ ran[i].job.kind = "SetPartGeometryJob"
                     /\ i > 1 /\ ~ran[i - 1].ok
            /\ \A i \in 1..Len(ran), k \in 1..Len(ran) : i # k => ran[i].job # ran[k].job
            /\ pc = "done" =>
                 \/ Len(composed) = Len(jobs)
                 \/ (Len(composed) > 0 /\ ~composed[Len(composed)].ok)

C2_Witness ==
    /\ pc = "done"
    /\ Len(jobs) = 6
    /\ Len(ran) = 4
    /\ ~ran[3].ok
    /\ IsRollback(ran[4])

\* C3: after preview(), when the move geometry job succeeds and the move file
\* system job fails, a compensating geometry job to the original first sector
\* is run and the status ends Error.
C3_MoveRollbackToOrigFirst ==
    (pc = "done" /\ previewed /\ Succeeded("moveSetGeomJob") /\ Failed("moveFileSystemJob")) =>
        /\ \E i \in 1..Len(ran) :
             /\ IsRollback(ran[i])
             /\ ran[i].job.kind = "SetPartGeometryJob"
             /\ ran[i].job.first = m_OrigFirstSector
        /\ status = "Error"

\* C4: after preview(), when the grow geometry job succeeds and the grow file
\* system job fails, a compensating geometry job with the original length is run
\* and the status ends Error.
C4_GrowRollbackToOrigLength ==
    (pc = "done" /\ previewed /\ Succeeded("growSetGeomJob") /\ Failed("growResizeJob")) =>
        /\ \E i \in 1..Len(ran) :
             /\ IsRollback(ran[i])
             /\ ran[i].job.kind = "SetPartGeometryJob"
             /\ ran[i].job.length = origLength
        /\ status = "Error"

\* C5: in every state of execute(), whichever jobs fail, the file system claims
\* no more sectors than the partition has on disk.
C5_FileSystemFitsPartition ==
    Executing => fsLength <= diskLength

C5_Witness ==
    /\ Succeeded("shrinkSetGeomJob")
    /\ Succeeded("moveSetGeomJob")
    /\ Failed("moveFileSystemJob")
    /\ pc = "done"
    /\ fsLength = diskLength
    /\ fsLength < startFsLength

\* C6: when the pre-check fails, no other job is run, the geometry and the file
\* system on disk are what they were, execute() returns false and the status
\* ends Error.
C6_PreCheckFailureAborts ==
    Failed("checkOriginalJob") =>
        /\ Len(ran) = 1
        /\ diskFirst = m_OrigFirstSector
        /\ diskLength = origLength
        /\ fsFirst = m_OrigFirstSector
        /\ fsLength = startFsLength
        /\ ~rval
        /\ pc \in {"setStatus", "done"}
        /\ pc = "done" => status = "Error"

C6_Witness ==
    /\ Failed("checkOriginalJob")
    /\ pc = "done"
    /\ resizeAction = MoveRightShrink

\* Every shrink, move and grow job of the operation succeeded, the post-check
\* failed, and execute() has returned.
PostCheckAloneFailed ==
    /\ pc = "done"
    /\ ~extended
    /\ Failed("checkResizedJob")
    /\ \A i \in 1..Len(ran) : ran[i].job.name # "checkResizedJob" => ran[i].ok

C8_ShrinkFsFailureLeavesGeometry ==
    Failed("shrinkResizeJob") =>
        /\ \A i \in 1..Len(ran) : ran[i].job.kind # "SetPartGeometryJob"
        /\ ran[Len(ran)].job.name = "shrinkResizeJob"
        /\ diskFirst = m_OrigFirstSector
        /\ diskLength = origLength

C8_Witness ==
    /\ Failed("shrinkResizeJob")
    /\ pc = "done"
    /\ resizeAction = MoveLeftShrink
    /\ previewed

\* C9: when the shrink file system job succeeds and the shrink geometry job
\* fails, that job is the last one run (no compensating, move, grow or post-check
\* job), the partition on disk keeps its geometry, the file system has the new
\* length, and the status ends Error.
C9_ShrinkGeomFailureStops ==
    (Succeeded("shrinkResizeJob") /\ Failed("shrinkSetGeomJob")) =>
        /\ ran[Len(ran)].job.name = "shrinkSetGeomJob"
        /\ diskFirst = m_OrigFirstSector
        /\ diskLength = origLength
        /\ fsLength = newLength
        /\ newLength < origLength
        /\ pc \in {"setStatus", "done"}
        /\ pc = "done" => (status = "Error" /\ ~rval)

C9_Witness ==
    /\ Succeeded("shrinkResizeJob")
    /\ Failed("shrinkSetGeomJob")
    /\ pc = "done"
    /\ resizeAction = MoveRightShrink
    /\ fsLength < startFsLength

\* C10: resizeAction() is one of the nine named values, never Grow with Shrink,
\* never MoveLeft with MoveRight, and None exactly when the new range is the
\* original range.
C10_ResizeActionClassifies ==
    Constructed =>
        /\ resizeAction \in ResizeActions
        /\ ~(Has(resizeAction, Grow) /\ Has(resizeAction, Shrink))
        /\ ~(Has(resizeAction, MoveLeft) /\ Has(resizeAction, MoveRight))
        /\ resizeAction = None <=>
             (m_NewFirstSector = m_OrigFirstSector /\ m_NewLastSector = m_OrigLastSector)

C10_Witness ==
    /\ Constructed
    /\ resizeAction = MoveRightGrow
    /\ m_NewLastSector > m_OrigLastSector + 1

\* C11: on an Extended partition the job list holds exactly one geometry job, to
\* the new first sector with the new length, and no job that resizes or moves a
\* file system; the only other job it can hold is the pre-check.
C11_ExtendedJobList ==
    (Constructed /\ extended) =>
        LET geom == SelectSeq(jobs, LAMBDA j : j.kind = "SetPartGeometryJob")
            fsJobs == SelectSeq(jobs, LAMBDA j : j.kind \in {"ResizeFileSystemJob", "MoveFileSystemJob"})
        IN  /\ Len(geom) = 1
            /\ geom[1].first = m_NewFirstSector
            /\ geom[1].length = newLength
            /\ Len(fsJobs) = 0
            /\ \A i \in 1..Len(jobs) : jobs[i].name \in {"checkOriginalJob", "moveExtendedJob"}

C11_Witness ==
    /\ Constructed
    /\ extended
    /\ Len(jobs) = 1
    /\ resizeAction = MoveLeftShrink

\* C12: on an Extended partition whose pre-check did not fail, execute() runs the
\* one geometry job and nothing after it, and ends FinishedSuccess when that job
\* succeeded and Error when it failed.
C12_ExtendedExecute ==
    (pc = "done" /\ extended /\ ~Failed("checkOriginalJob")) =>
        /\ ran[Len(ran)].job.name = "moveExtendedJob"
        /\ \A i \in 1..Len(ran) : ran[i].job.name \in {"checkOriginalJob", "moveExtendedJob"}
        /\ Len(SelectSeq(ran, LAMBDA r : r.job.name = "moveExtendedJob")) = 1
        /\ Succeeded("moveExtendedJob") => status = "FinishedSuccess"
        /\ Failed("moveExtendedJob") => status = "Error"

C12_Witness ==
    /\ pc = "done"
    /\ extended
    /\ Succeeded("checkOriginalJob")
    /\ Failed("moveExtendedJob")
    /\ resizeAction = MoveRightGrow

TerminalStatus == {"FinishedSuccess", "FinishedWarning", "Error"}

\* C13: every call of execute() returns, with the status then one of
\* FinishedSuccess, FinishedWarning and Error, and its return value true exactly
\* when the status is FinishedSuccess or FinishedWarning.
C13_ExecuteTerminates ==
    /\ [](Executing => <>(pc = "done"))
    /\ [](pc = "done" =>
            /\ status \in TerminalStatus
            /\ rval <=> status \in {"FinishedSuccess", "FinishedWarning"})

C13_Witness ==
    /\ pc = "done"
    /\ status = "Error"
    /\ ~rval
    /\ Len(ran) = 6
    /\ IsRollback(ran[6])


----------------------------------------------------------------------------
\* Properties of the preview and of the stack

RECURSIVE UndoAll(_, _)
\* The model after undo() of every operation of list, the newest first.
UndoAll(list, m) ==
    IF Len(list) = 0 THEN m
    ELSE UndoAll(SubSeq(list, 1, Len(list) - 1), Undone(list[Len(list)], m))

Top == ops[Len(ops)]

\* C14: whatever resize operations were pushed one after another, undoing all of
\* them newest first gives the preview its state before the first push: the same
\* partitions in the same order with the same first and last sectors.
C14_UndoAllRestoresPreview ==
    spc = "staging" => UndoAll(ops, Model) = initial

\* Two resizes were pushed, the table order changed and one was popped since.
C14_Witness ==
    /\ spc = "staging"
    /\ Len(ops) = 2
    /\ \A i \in 1..2 : ops[i].kind = "Resize"
    /\ devParts # initial.devParts
    /\ sect["sda2"] # initial.sect["sda2"]
    /\ popped = "Pending"

\* C15: preview() of an operation whose partition is already at the new first and
\* last sector leaves the preview as it is: the partition at the new range, the
\* same partitions in the same order.
C15_PreviewIdempotent ==
    (spc = "staging" /\ Len(ops) > 0 /\ Top.kind = "Resize") =>
        /\ sect[Top.part] = Range(Top.newFirst, Top.newLast)
        /\ previewOn(Top, Model) = Model

\* A pushed resize that changed the range and the table order, previewed.
C15_Witness ==
    /\ spc = "staging"
    /\ Len(ops) = 1
    /\ Top.kind = "Resize"
    /\ sect[Top.part] = Range(Top.newFirst, Top.newLast)
    /\ Range(Top.origFirst, Top.origLast) # Range(Top.newFirst, Top.newLast)
    /\ devParts = <<"sda2", "sda1">>

\* C16: the constructor changes nothing of the device or its partitions: the
\* sectors of every partition, the table and the disk are as before, and the new
\* operation holds the sectors the partition had and the ones it was given.
C16_ConstructorChangesNothing ==
    [][(fresh = NoOp /\ fresh' # NoOp /\ fresh'.kind = "Resize") =>
          /\ UNCHANGED <<devParts, sect, real, ops>>
          /\ sect[fresh'.part] = Range(fresh'.origFirst, fresh'.origLast)
          /\ fresh'.status = "None"]_vars

\* A constructed resize with jobs, its partition still where it was.
C16_Witness ==
    /\ fresh # NoOp
    /\ fresh.kind = "Resize"
    /\ Len(fresh.jobs) >= 4
    /\ sect[fresh.part] = Range(fresh.origFirst, fresh.origLast)
    /\ sect[fresh.part] # Range(fresh.newFirst, fresh.newLast)


\* The status of the operation at i: the one execute() is working on has it in
\* status, the stack's copy following when execute() has returned.
OpStatus(i) ==
    IF spc = "executing" /\ pc # "stack" /\ i = cur THEN status ELSE ops[i].status

OpStatusNext(i) ==
    IF spc' = "executing" /\ pc' # "stack" /\ i = cur' THEN status' ELSE ops'[i].status

Finished == {"FinishedSuccess", "FinishedWarning"}

\* C17: the stack runs the operations oldest first: one that left Pending has
\* only finished operations before it; after one that ended in Error every later
\* one is still Pending; and the stack does not end with a Pending operation
\* right after one that ended FinishedSuccess or FinishedWarning.
C17_StackExecutePolicy ==
    /\ \A i \in 1..Len(ops) : \A j \in 1..Len(ops) :
         (i < j /\ OpStatus(j) # "Pending") => OpStatus(i) \in Finished
    /\ \A i \in 1..Len(ops) : \A j \in 1..Len(ops) :
         (i < j /\ OpStatus(i) = "Error") => OpStatus(j) = "Pending"
    /\ \A i \in 1..Len(ops) : (OpStatus(i) = "Running") => (i = cur)
    /\ spc = "finished" => \A i \in 1..(Len(ops) - 1) :
         OpStatus(i) \in Finished => OpStatus(i + 1) # "Pending"

\* The first of two operations failed in its file system move and was rolled
\* back; the stack ended with the second one still Pending.
C17_Witness ==
    /\ spc = "finished"
    /\ Len(ops) = 2
    /\ ops[1].status = "Error"
    /\ ops[2].status = "Pending"
    /\ Failed("moveFileSystemJob")

\* C18: an operation leaves the stack only from the top and only while Pending,
\* and the preview is then what undo() of that operation makes of it.
C18_PopOnlyPendingTop ==
    [][Len(ops') < Len(ops) =>
          /\ ops' = SubSeq(ops, 1, Len(ops) - 1)
          /\ Top.status = "Pending"
          /\ popped' = "Pending"
          /\ devParts' = Undone(Top, Model).devParts
          /\ sect' = Undone(Top, Model).sect]_vars

\* The Pending operation left after a failure was popped; the failed one stays.
C18_Witness ==
    /\ spc = "finished"
    /\ popped = "Pending"
    /\ Len(ops) = 1
    /\ ops[1].status = "Error"
    /\ ops[1].kind = "Resize"

Geometry(first, length) == [first |-> first, length |-> length]

RECURSIVE GeometryAfter(_, _)
\* The geometry on disk after every job of list ran with success, from g.
GeometryAfter(list, g) ==
    IF Len(list) = 0 THEN g
    ELSE GeometryAfter(Tail(list),
                       IF Head(list).kind = "SetPartGeometryJob"
                       THEN Geometry(Head(list).first, Head(list).length)
                       ELSE g)

RECURSIVE Sequentially(_, _)
\* The geometry on disk after the requested resizes ran one after the other, each
\* an operation of its own constructed when the preview was at its original range.
Sequentially(requests, g) ==
    IF Len(requests) = 0 THEN g
    ELSE LET r == Head(requests)
             c == ctor(IsExtended(r.part), canCheck, r.origFirst, r.origLast,
                       r.newFirst, r.newLast)
         IN  Sequentially(Tail(requests), GeometryAfter(c.jobs, g))

\* C19: an operation merged from two resizes of the same partition that ends
\* FinishedSuccess leaves on disk the first sector and the length that the two
\* resizes, run one after the other with success, leave.
C19_MergedAsSequential ==
    (spc = "executing" /\ pc = "done" /\ status = "FinishedSuccess"
       /\ Len(ops[cur].originals) = 2) =>
        Geometry(diskFirst, diskLength) =
            Sequentially(ops[cur].originals,
                         Geometry(real[ops[cur].part].first, real[ops[cur].part].length))

\* A merged operation finished: the first resize moved the partition, the second
\* shrank it, and the disk has another first sector and another length.
C19_Witness ==
    /\ spc = "executing"
    /\ pc = "done"
    /\ status = "FinishedSuccess"
    /\ Len(ops[cur].originals) = 2
    /\ ops[cur].originals[1].newFirst # ops[cur].originals[1].origFirst
    /\ ops[cur].originals[2].newLast # ops[cur].originals[2].origLast
    /\ diskFirst # real[ops[cur].part].first
    /\ diskLength < real[ops[cur].part].length

Rank(s) ==
    CASE s = "None" -> 0
      [] s = "Pending" -> 1
      [] s = "Running" -> 2
      [] OTHER -> 3

\* C20: the status of an operation on the stack never goes back; it becomes
\* Running only from Pending and terminal only from Running, a terminal status
\* stays, and an operation enters the stack as Pending from None.
C20_StatusMovesForward ==
    [][/\ \A i \in 1..Len(ops) : i <= Len(ops') =>
            /\ Rank(OpStatusNext(i)) >= Rank(OpStatus(i))
            /\ (Rank(OpStatusNext(i)) = 3 /\ Rank(OpStatus(i)) < 3) => OpStatus(i) = "Running"
            /\ (Rank(OpStatusNext(i)) = 2 /\ Rank(OpStatus(i)) < 2) => OpStatus(i) = "Pending"
            /\ Rank(OpStatus(i)) = 3 => OpStatusNext(i) = OpStatus(i)
       /\ Len(ops') > Len(ops) =>
            /\ fresh.status = "None"
            /\ ops'[Len(ops')].status = "Pending"
       /\ fresh'.status = "None"]_vars

\* Two operations went through Pending and Running to a terminal status each.
C20_Witness ==
    /\ spc = "finished"
    /\ Len(ops) = 2
    /\ ops[1].status = "FinishedWarning"
    /\ ops[2].status = "Error"
    /\ ops[2].kind = "Resize"
    /\ Len(ran) > 0


----------------------------------------------------------------------------
\* Properties of the check jobs, of the report and of the job targets

IsCheckJob(j) == j.kind = "CheckFileSystemJob"
IsCheckRun(r) == IsCheckJob(r.job)

\* C21: check jobs are composed and run only when the file system can be
\* checked: then the pre-check is the first job of the list and the first that
\* execute() runs, and the post-check is the last of the list of a non-Extended
\* partition and runs only after every resize/move job of the list succeeded,
\* and always then; otherwise no check job is in the list and none is run.
C21_ChecksOnlyWhenSupported ==
    Constructed =>
        /\ ~canCheck => /\ Len(SelectSeq(jobs, IsCheckJob)) = 0
                        /\ Len(SelectSeq(ran, IsCheckRun)) = 0
        /\ canCheck => /\ jobs[1].name = "checkOriginalJob"
                       /\ ~extended => jobs[Len(jobs)].name = "checkResizedJob"
                       /\ Len(SelectSeq(jobs, IsCheckJob)) = (IF extended THEN 1 ELSE 2)
                       /\ Len(ran) > 0 => ran[1].job.name = "checkOriginalJob"
        /\ \A i \in 1..Len(ran) :
             /\ ran[i].job.name = "checkOriginalJob" => i = 1
             /\ ran[i].job.name = "checkResizedJob" =>
                    /\ i = Len(jobs)
                    /\ i = Len(ran)
                    /\ \A k \in 1..(i - 1) : ran[k].ok /\ ran[k].job = jobs[k]
        /\ (pc = "done" /\ canCheck /\ ~extended
              /\ \A i \in 1..Len(ran) : IsCheckRun(ran[i]) \/ ran[i].ok)
             => (Failed("checkOriginalJob") \/ Succeeded("checkResizedJob")
                   \/ Failed("checkResizedJob"))

\* Pre-check, four resize/move jobs and post-check ran, in this order.
C21_Witness ==
    /\ pc = "done"
    /\ canCheck
    /\ Len(ran) = 6
    /\ ran[1].job.name = "checkOriginalJob"
    /\ ran[6].job.name = "checkResizedJob"
    /\ rval

\* The lines execute() and its phases write when the job named n fails.
LinesOf(n) ==
    CASE n = "checkOriginalJob" -> {"check before failed"}
      [] n = "moveExtendedJob" -> {"moving extended failed"}
      [] n = "shrinkResizeJob" -> {"could not resize file system to shrink"}
      [] n = "shrinkSetGeomJob" -> {"could not shrink partition"}
      [] n = "moveSetGeomJob" -> {"moving partition failed"}
      [] n = "moveFileSystemJob" -> {"moving the filesystem failed, rolling back"}
      [] n = "growSetGeomJob" -> {"could not grow partition"}
      [] n = "growResizeJob" -> {"could not resize the file system"}
      [] n = "checkResizedJob" -> {"check after failed"}
      [] n = "rollback" -> {"moving back failed", "could not restore old size"}

FailedRuns == SelectSeq(ran, LAMBDA r : ~r.ok)

\* C22: every job that failed in execute(), the compensating ones included, has
\* a line of its own in the report of the operation, so the report has at least
\* as many lines as jobs failed.
C22_EveryFailureReported ==
    /\ \A i \in 1..Len(ran) :
         ~ran[i].ok => \E k \in 1..Len(report) : report[k] \in LinesOf(ran[i].job.name)
    /\ Len(report) >= Len(FailedRuns)
    /\ Len(report) > 0 => Len(FailedRuns) > 0

\* The file system move failed and so did the job that moves the partition back.
C22_Witness ==
    /\ pc = "done"
    /\ Len(FailedRuns) = 2
    /\ Failed("moveFileSystemJob")
    /\ Failed("rollback")
    /\ Len(report) = 3

\* C29: the targets of the jobs of a non-Extended partition: shrink geometry
\* (origFirst, newLength); move geometry (newFirst, newLength after a shrink,
\* origLength otherwise); grow geometry (newFirst, newLength); file system
\* resizes newLength; file system move newFirst.
C29_JobTargets ==
    (Constructed /\ ~extended) =>
        /\ Has(resizeAction, Shrink) =>
             /\ m_Job["shrinkResizeJob"] = ResizeFileSystemJob("shrinkResizeJob", newLength)
             /\ m_Job["shrinkSetGeomJob"] =
                  SetPartGeometryJob("shrinkSetGeomJob", m_OrigFirstSector, newLength)
        /\ (Has(resizeAction, MoveLeft) \/ Has(resizeAction, MoveRight)) =>
             /\ m_Job["moveSetGeomJob"] =
                  SetPartGeometryJob("moveSetGeomJob", m_NewFirstSector,
                                     IF Has(resizeAction, Shrink) THEN newLength ELSE origLength)
             /\ m_Job["moveFileSystemJob"] = MoveFileSystemJob("moveFileSystemJob", m_NewFirstSector)
        /\ Has(resizeAction, Grow) =>
             /\ m_Job["growSetGeomJob"] =
                  SetPartGeometryJob("growSetGeomJob", m_NewFirstSector, newLength)
             /\ m_Job["growResizeJob"] = ResizeFileSystemJob("growResizeJob", newLength)
        /\ \A i \in 1..Len(jobs) : IsCheckJob(jobs[i]) \/ jobs[i] = m_Job[jobs[i].name]
        /\ \A i \in 1..Len(ran) :
             (ran[i].job.name = "moveSetGeomJob" /\ ran[i].ok /\ i = Len(ran)
                /\ pc = "moveFileSystem")
               => diskLength = (IF Has(resizeAction, Shrink) THEN newLength ELSE origLength)

\* The geometry was moved before the grow: the disk still has the original length.
C29_Witness ==
    /\ pc = "moveFileSystem"
    /\ ~extended
    /\ resizeAction = MoveRightGrow
    /\ Succeeded("moveSetGeomJob")
    /\ diskLength = origLength
    /\ diskFirst = m_NewFirstSector

AllSucceeded == \A i \in 1..Len(ran) : ran[i].ok

SetGeometryRuns == SelectSeq(ran, LAMBDA r : r.job.kind = "SetPartGeometryJob")

\* C30 as claimed: after every job succeeded the file system has the new length,
\* whatever the action.
C30_FileSystemHasNewLength ==
    (pc = "done" /\ ~extended /\ resizeAction # None /\ AllSucceeded) =>
        fsLength = newLength

\* C30: for each of the eight actions, when every job succeeded the last
\* geometry applied is (newFirst, newLength), the partition ends at newLast, the
\* file system is at newFirst, its length is newLength if the action grows or
\* shrinks and the length it had before on a pure move, and the status is
\* FinishedSuccess.
C30_AllJobsSucceed ==
    (pc = "done" /\ ~extended /\ resizeAction # None /\ AllSucceeded) =>
        /\ Len(SetGeometryRuns) > 0
        /\ SetGeometryRuns[Len(SetGeometryRuns)].job.first = m_NewFirstSector
        /\ SetGeometryRuns[Len(SetGeometryRuns)].job.length = newLength
        /\ diskFirst = m_NewFirstSector
        /\ diskLength = newLength
        /\ pLast = m_NewLastSector
        /\ fsFirst = m_NewFirstSector
        /\ fsLength = (IF Has(resizeAction, Grow) \/ Has(resizeAction, Shrink)
                       THEN newLength ELSE startFsLength)
        /\ startFsLength = origLength => fsLength = newLength
        /\ status = "FinishedSuccess"
        /\ rval

\* A move to the left with a grow, every job of it succeeded.
C30_Witness ==
    /\ pc = "done"
    /\ ~extended
    /\ resizeAction = MoveLeftGrow
    /\ AllSucceeded
    /\ Len(ran) = 6
    /\ status = "FinishedSuccess"


----------------------------------------------------------------------------
\* Properties of canGrow, canShrink and canMove

\* A call was made on a partition, not on nullptr.
Asked == asked # "none" /\ candidate # nullptr

\* The partition is an LVM physical volume, itself or inside a LUKS container,
\* and is among the dirty physical volumes.
IsDirtyPV(q) ==
    /\ q.dirtyPV
    /\ \/ q.fsType = "Lvm2_PV"
       \/ q.fsType \in {"Luks", "Luks2"} /\ q.innerFS = "Lvm2_PV"

\* C23: canGrow, canShrink and canMove return false for a partition whose table
\* has type none, whatever else is true of the partition.
C23_TablelessNeverEligible ==
    (Asked /\ candidate.tableType = "none") => answer = FALSE

\* A new partition without the Luks role on a device without table: not growable.
C23_Witness ==
    /\ asked = "canGrow"
    /\ candidate # nullptr
    /\ candidate.tableType = "none"
    /\ candidate.state = "New"
    /\ ~candidate.luks
    /\ ~IsDirtyPV(candidate)
    /\ answer = FALSE

\* C24: canGrow, canShrink and canMove return false for a dirty LVM physical
\* volume, be it the file system of the partition or the inner file system of
\* its LUKS container, whatever its state, mount status and capabilities.
C24_DirtyPVNeverEligible ==
    (Asked /\ IsDirtyPV(candidate)) => answer = FALSE

\* A new partition on a table whose LUKS2 container holds a dirty physical volume.
C24_Witness ==
    /\ asked = "canShrink"
    /\ candidate # nullptr
    /\ candidate.tableType = "msdos"
    /\ candidate.state = "New"
    /\ ~candidate.luks
    /\ candidate.fsType = "Luks2"
    /\ candidate.innerFS = "Lvm2_PV"
    /\ candidate.dirtyPV
    /\ answer = FALSE

\* C25: for a partition in state New on a device with a table that is no dirty
\* physical volume, canGrow and canShrink return true whatever its roles and
\* capabilities, and canMove returns true unless it has the Luks role.
C25_NewPartitionEligible ==
    (Asked /\ candidate.state = "New" /\ candidate.tableType # "none"
       /\ ~IsDirtyPV(candidate)) =>
        /\ asked \in {"canGrow", "canShrink"} => answer = TRUE
        /\ asked = "canMove" => answer = ~candidate.luks

\* C26: canShrink returns false for every partition in state Copy, mounted or
\* not, whatever its file system can do.
C26_CopyNeverShrinks ==
    (Asked /\ asked = "canShrink" /\ candidate.state = "Copy") => answer = FALSE

\* A mounted copy on a table whose file system can shrink online and offline.
C26_Witness ==
    /\ asked = "canShrink"
    /\ candidate # nullptr
    /\ candidate.state = "Copy"
    /\ candidate.tableType = "msdos"
    /\ ~IsDirtyPV(candidate)
    /\ candidate.isMounted
    /\ candidate.supportShrinkOnline
    /\ candidate.supportShrink = "cmdSupportFileSystem"
    /\ answer = FALSE

\* Not New, on a table, no dirty physical volume.
Existing(q) == q.state # "New" /\ q.tableType # "none" /\ ~IsDirtyPV(q)

Online(q, fn) == IF fn = "canGrow" THEN q.supportGrowOnline ELSE q.supportShrinkOnline
Offline(q, fn) ==
    IF fn = "canGrow" THEN q.supportGrow # "cmdSupportNone"
    ELSE q.supportShrink # "cmdSupportNone"

\* C27 as claimed: for every partition that is not New, not without table and
\* not dirty, canGrow and canShrink are the online capability when it is mounted
\* and the offline one when it is not, and canMove of a mounted one is false.
C27_CapabilityTiersForAllExisting ==
    (Asked /\ Existing(candidate)) =>
        /\ asked \in {"canGrow", "canShrink"} =>
             answer = (IF candidate.isMounted THEN Online(candidate, asked)
                       ELSE Offline(candidate, asked))
        /\ (asked = "canMove" /\ candidate.isMounted) => answer = FALSE

\* C27: the same, canShrink taken for partitions that are not in state Copy.
C27_CapabilityTiers ==
    (Asked /\ Existing(candidate)) =>
        /\ (asked = "canGrow" \/ (asked = "canShrink" /\ candidate.state # "Copy")) =>
             answer = (IF candidate.isMounted THEN Online(candidate, asked)
                       ELSE Offline(candidate, asked))
        /\ (asked = "canMove" /\ candidate.isMounted) => answer = FALSE

\* A mounted partition that can grow online and not offline: growable.
C27_Witness ==
    /\ asked = "canGrow"
    /\ candidate # nullptr
    /\ Existing(candidate)
    /\ candidate.isMounted
    /\ candidate.supportGrowOnline
    /\ candidate.supportGrow = "cmdSupportNone"
    /\ answer = TRUE

\* C28: canMove returns false for every Extended partition with children, in
\* every state.
C28_ExtendedWithChildrenNeverMoves ==
    (Asked /\ asked = "canMove" /\ candidate.extendedRole /\ candidate.hasChildren) =>
        answer = FALSE


----------------------------------------------------------------------------
\* Properties of the geometries applied and of the compensating jobs

\* The sectors first .. first + length - 1 lie within a .. b.
Within(first, length, a, b) == a <= first /\ first + length - 1 <= b

InOrigOrNew(j) ==
    \/ Within(j.first, j.length, m_OrigFirstSector, m_OrigLastSector)
    \/ Within(j.first, j.length, m_NewFirstSector, m_NewLastSector)

\* C31: every geometry a composed geometry job applies lies within the original
\* range of the partition or within the requested one, and so does the geometry
\* on disk as long as no compensating job ran.
C31_GeometriesWithinOrigOrNew ==
    Constructed =>
        /\ \A i \in 1..Len(jobs) :
             jobs[i].kind = "SetPartGeometryJob" => InOrigOrNew(jobs[i])
        /\ \A n \in Members :
             m_Job[n].kind = "SetPartGeometryJob" => InOrigOrNew(m_Job[n])
        /\ \A i \in 1..Len(ran) :
             (IsComposed(ran[i]) /\ ran[i].job.kind = "SetPartGeometryJob")
               => InOrigOrNew(ran[i].job)
        /\ (\A i \in 1..Len(ran) : IsComposed(ran[i]))
             => InOrigOrNew([first |-> diskFirst, length |-> diskLength])

\* A move to the right with a shrink: the shrunk partition was moved, and it is
\* within the requested range and not within the original one.
C31_Witness ==
    /\ pc = "moveFileSystem"
    /\ resizeAction = MoveRightShrink
    /\ Succeeded("shrinkSetGeomJob")
    /\ Succeeded("moveSetGeomJob")
    /\ Within(diskFirst, diskLength, m_NewFirstSector, m_NewLastSector)
    /\ ~Within(diskFirst, diskLength, m_OrigFirstSector, m_OrigLastSector)

\* C32: a compensating geometry job is run only right after the file system job
\* of move() or grow() failed, the geometry job of that phase having succeeded
\* right before, and always then; at most one is run, nothing is run after it,
\* and the terminal status is Error whatever it returned.
C32_CompensationOnlyAfterFileSystemFailure ==
    /\ \A i \in 1..Len(ran) :
         IsRollback(ran[i]) =>
             /\ i >= 3
             /\ i = Len(ran)
             /\ ~ran[i - 1].ok
             /\ ran[i - 2].ok
             /\ \/ /\ ran[i - 1].job.name = "moveFileSystemJob"
                   /\ ran[i - 2].job.name = "moveSetGeomJob"
                \/ /\ ran[i - 1].job.name = "growResizeJob"
                   /\ ran[i - 2].job.name = "growSetGeomJob"
             /\ pc \in {"setStatus", "done"}
             /\ ~rval
             /\ pc = "done" => status = "Error"
    /\ Len(SelectSeq(ran, IsRollback)) <= 1
    /\ (pc \in {"setStatus", "done"}
          /\ (Failed("moveFileSystemJob") \/ Failed("growResizeJob")))
         => Len(SelectSeq(ran, IsRollback)) = 1

\* The file system could not be grown and the partition was set back with success.
C32_Witness ==
    /\ pc = "done"
    /\ Failed("growResizeJob")
    /\ Succeeded("rollback")
    /\ status = "Error"
    /\ Len(ran) = 3

\* C33: a later failure does not undo an earlier phase. After a shrink that
\* succeeded, a file system move that failed and a compensating job that
\* succeeded, the partition is at its original first sector with the new length;
\* after a move that succeeded, a file system grow that failed and a compensating
\* job that succeeded, it is at the new first sector with the original length.
C33_EarlierPhaseNotUndone ==
    (pc = "done" /\ Succeeded("rollback")) =>
        /\ (Has(resizeAction, Shrink) /\ Failed("moveFileSystemJob")) =>
             /\ diskFirst = m_OrigFirstSector
             /\ diskLength = newLength
             /\ pFirst = m_OrigFirstSector
             /\ pLength = newLength
             /\ newLength < origLength
             /\ fsLength = newLength
        /\ (Has(resizeAction, Grow) /\ Succeeded("moveFileSystemJob")
              /\ Failed("growResizeJob")) =>
             /\ diskFirst = m_NewFirstSector
             /\ diskLength = origLength
             /\ pFirst = m_NewFirstSector
             /\ pLength = origLength
             /\ fsFirst = m_NewFirstSector

\* Shrunk, then moved, then moved back: at the original first sector, shorter.
C33_Witness ==
    /\ pc = "done"
    /\ previewed
    /\ resizeAction = MoveLeftShrink
    /\ Succeeded("shrinkSetGeomJob")
    /\ Failed("moveFileSystemJob")
    /\ Succeeded("rollback")
    /\ diskFirst = m_OrigFirstSector
    /\ diskLength = newLength

\* C34: an operation on a non-Extended partition whose new range is the original
\* one has no geometry, resize or move job in its list; execute() runs only the
\* check jobs, leaves geometry and file system as they are, and ends
\* FinishedSuccess when the checks pass.
C34_NoActionOnlyChecks ==
    (Constructed /\ ~extended /\ m_NewFirstSector = m_OrigFirstSector
       /\ m_NewLastSector = m_OrigLastSector) =>
        /\ resizeAction = None
        /\ Len(SelectSeq(jobs, IsResizeMoveJob)) = 0
        /\ \A n \in Members \ {"checkOriginalJob", "checkResizedJob"} : m_Job[n] = nullptr
        /\ \A i \in 1..Len(ran) : IsCheckRun(ran[i])
        /\ diskFirst = m_OrigFirstSector
        /\ diskLength = origLength
        /\ fsLength = startFsLength
        /\ fsFirst = m_OrigFirstSector
        /\ (pc = "done" /\ AllSucceeded) => (status = "FinishedSuccess" /\ rval)
        /\ pc = "done" => Len(ran) <= 2

\* Both checks ran and passed on an operation that asks for nothing.
C34_Witness ==
    /\ pc = "done"
    /\ ~extended
    /\ m_NewFirstSector = m_OrigFirstSector
    /\ m_NewLastSector = m_OrigLastSector
    /\ Len(ran) = 2
    /\ AllSucceeded
    /\ status = "FinishedSuccess"

\* The partitions of the table, as a set.
TableSet(parts) == {parts[i] : i \in 1..Len(parts)}

\* C35: preview() and undo(), as the stack calls them on push, merge, pop and
\* preview again, change the first and last sector of the partition of the
\* operation only: the table has the same partitions, each once, and every other
\* partition keeps its sectors.
C35_PreviewUndoFrame ==
    [][(spc = "staging" /\ spc' = "staging") =>
          /\ Len(devParts') = Len(devParts)
          /\ TableSet(devParts') = TableSet(devParts)
          /\ \A q \in PartIds :
               sect'[q] # sect[q] =>
                   \/ fresh # NoOp /\ fresh.kind = "Resize" /\ q = fresh.part
                   \/ fresh = NoOp /\ Len(ops) > 0 /\ Top.kind = "Resize" /\ q = Top.part]_vars

\* The preview of the second partition changed and the first one was left alone.
C35_Witness ==
    /\ spc = "staging"
    /\ Len(ops) = 1
    /\ Top.kind = "Resize"
    /\ Top.part = "sda2"
    /\ sect["sda2"] # initial.sect["sda2"]
    /\ sect["sda1"] = initial.sect["sda1"]
    /\ Len(devParts) = 2
    /\ popped = "Pending"

-----------------------------------------------------------------------------
\* Properties of ExternalCommand and writeMountpoints

IsTransfer == lastCall \in {"start", "copyBlocks", "writeData"}

\* C36: start(), copyBlocks() and writeData() return true only if the helper's
\* reply reported success: when the D-Bus call finished with an error, the call
\* returned false and the exit code of the command is not 0.
C36_DBusErrorReportsFailure ==
    IsTransfer =>
        /\ returned => dbus = "reply"
        /\ dbus = "error" => (~returned /\ m_ExitCode # 0)

\* C38: helperStarted is true only after the helper signalled that it is ready
\* (newData); when the authorization job finished with an error instead,
\* helperStarted is still false and a constructor that just ran startHelper()
\* has logged that administrator privileges could not be obtained.
C38_HelperStartedOnlyWhenReady ==
    /\ helperStarted => auth = "newData"
    /\ auth = "error" =>
          /\ ~helperStarted
          /\ (lastCall = "ExternalCommand" /\ launches = 1) => logged

MvOk(m) == m.rval /\ m.exitCode = 0

\* C37: writeMountpoints() runs the mv that replaces the fstab file only after the
\* mv of the existing file to its .bak name succeeded with exit code 0; it
\* returns true exactly when both moves succeeded; and when it returned false
\* because the backup move failed, the original file is still under its name.
C37_ReplaceOnlyAfterBackup ==
    /\ \A i \in 1..Len(wran) :
          wran[i].cmd = "replace" => (i = 2 /\ wran[1].cmd = "backup" /\ MvOk(wran[1]))
    /\ wpc = "returned" =>
          /\ wret <=> (Len(wran) = 2 /\ \A i \in 1..2 : MvOk(wran[i]) /\ wran[i].moved)
          /\ wret => (fstab = "entries" /\ bak = "original" /\ tmp = "none")
          /\ (~wret /\ Len(wran) = 1 /\ ~MvOk(wran[1])) => fstab = "original"

C37_Witness ==
    /\ wpc = "returned"
    /\ ~wret
    /\ Len(wran) = 1
    /\ wran[1].cmd = "backup"
    /\ wran[1].rval
    /\ wran[1].exitCode = 1
    /\ fstab = "original"

====
